---------------------------- MODULE Spec2Model ----------------------------
(***************************************************************************)
(* SomaFM player for the M5 Cardputer (src/src/main.cpp).                  *)
(*                                                                         *)
(* Two execution contexts share a handful of volatile scalars and no       *)
(* lock:                                                                   *)
(*   - the audio task (audioTask, pinned to core 0) reads the command      *)
(*     slot aCmd, builds and tears down the playback session and runs the  *)
(*     decoder;                                                            *)
(*   - the control context (loop() on core 1) runs the boot sequence and   *)
(*     the key handlers, which call startPlaying / stopPlaying and toggle  *)
(*     aPaused.                                                            *)
(* Every access to a variable the other context reads or writes is one     *)
(* step of the model, so that all interleavings of the two contexts are    *)
(* explored.  Accesses to variables private to one context are folded      *)
(* into the neighbouring step.                                             *)
(*                                                                         *)
(* Spec covers the command protocol: boot, the key blocks that select a    *)
(* station, start, stop, skip and pause, and the whole audio task.  The    *)
(* decoder is the library's: begin() and loop() succeed or fail as the     *)
(* network decides.  The key blocks for paging, favorites, visualizer and  *)
(* volume, the deferred directory refresh and the per-sample work of the   *)
(* output sink do not write the command slot and are not part of Spec.     *)
(*                                                                         *)
(* SinkSpec covers the output sink of a running session: ConsumeSample     *)
(* with the gain, the mono mix and the spectrum, peak and waveform         *)
(* telemetry, under commands and pause.                                    *)
(*                                                                         *)
(* DirSpec covers the directory: the boot sequence from the cache file or  *)
(* the network, the deferred refresh, the favorites and the last station,  *)
(* together with the key blocks of Spec; the audio task takes one whole    *)
(* iteration per step.  BootSpec is the boot sequence, the error screen,   *)
(* the refresh and the Browser's navigation without playback.              *)
(*                                                                         *)
(* VolSpec covers the volume keys of the Browser and the Player from any   *)
(* stored volume.  KeySpec covers the keyboard: time, key edges, the       *)
(* debounce gate of the two key handlers, the G0 button and the error      *)
(* screen's handler, in front of the key blocks of Spec.                   *)
(*                                                                         *)
(* RefreshSpec covers the deferred refresh with the WiFi link and the      *)
(* fetch as a step of its own.  NavSpec covers the Browser's navigation    *)
(* keys and the list window over a directory longer than the window.       *)
(***************************************************************************)
EXTENDS Integers, Sequences, FiniteSets, TLC

\* Number of stations the directory holds after boot (at most MAX_STATIONS).
NumStations == 2

\* #define ACMD_NONE / ACMD_STOP / ACMD_PLAY
ACMD_NONE == 0
ACMD_STOP == 1
ACMD_PLAY == 2

\* const unsigned long DEBOUNCE_MS = 180;
DEBOUNCE_MS == 180

\* #define VISIBLE_LINES (CONTENT_H / LINE_H):  (135 - 22 - 16) / 15
VISIBLE_LINES == 6

\* Iterations of the interruptible wait before the auto-retry.
RETRY_POLLS == 20

\* playingIdx / aTarget value meaning "no station"; also the null session.
NoStation == -1

VARIABLES
    \* ---- shared between the two contexts
    aCmd,          \* volatile int  aCmd      command slot
    aTarget,       \* volatile int  aTarget   station index of a Play command
    aRunning,      \* volatile bool aRunning
    aPaused,       \* volatile bool aPaused
    playingIdx,    \* int playingIdx (-1 = none), written by both contexts
    stationCount,  \* int stationCount
    \* ---- control context
    appState,      \* AppState appState
    selectedIdx,   \* int selectedIdx
    c_pc,          \* position of the control context inside loop()
    c_blk,         \* key block of the handler being executed
    c_arg,         \* argument idx of the startPlaying call in progress
    \* ---- audio task
    a_pc,          \* position of the audio task inside audioTask()
    cmd,           \* local  int cmd = aCmd
    idx,           \* local  int idx = aTarget
    i,             \* local  loop counter of the retry wait
    reg,           \* value of playingIdx loaded for  aTarget = playingIdx
    audioSrc,      \* station the stream source/buffer is connected to, or NoStation (nullptr)
    mp3,           \* decoder object: "null", "created" (constructed), "running" (begin() ok)
    nLive,         \* number of session objects allocated (new) and not deleted
    \* ---- history of the run (read by the properties only)
    hCmdBy,        \* who stored the value now in aCmd: "none", "ctl", "audio"
    hLastKind,     \* last command the control context published: "none", "stop", "play"
    hLastIdx,      \* ... and its station index (NoStation for Stop)
    hOver,         \* that Play was issued while a Play for another station was pending
    hFailIdx,      \* station of the session whose stream failed, during the retry that follows
    hQuiet,        \* the control context has been idle since that failure
    hConnFail,     \* begin() failed and the audio task has picked up no command since
    hRetries,      \* auto-retries published since the last successful begin() or control command
    \* ---- output sink (DirectI2SOutput) and the telemetry it extracts
    _buf,          \* int16_t _buf[BUF_SZ]      block buffer: the entries _buf[0 .. _bp-1]
                   \*   (the rest is overwritten before the driver reads it)
    _bp,           \* int _bp                   fill cursor of _buf
    gainF2P6,      \* uint8_t gainF2P6          gain, fixed point 2.6
    _binAcc,       \* static uint32_t _binAcc[VIS_BINS]
    _binIdx,       \* static int _binIdx
    _binCnt,       \* static int _binCnt
    _peakAcc,      \* static uint32_t _peakAcc
    _peakCnt,      \* static int _peakCnt
    _waveSub,      \* static int _waveSub
    visPeak,       \* volatile uint16_t visPeak
    visBins,       \* volatile uint8_t visBins[VIS_BINS]
    visWave,       \* volatile int8_t visWave[VIS_WAVE_N]
    visWaveW,      \* volatile int visWaveW
    ret,           \* what the last ConsumeSample call returned: "true", "false" ("none" before the first)
    inA, inB,      \* the decoded stream: stereo frames <<left, right>> the decoder offers
    \* ---- history of the sink (read by the properties only)
    hN,            \* samples accepted by ConsumeSample since boot
    hM,            \* waveform captures since boot
    hWin,          \* output samples (mono) of the bin window in progress or just completed
    hWaveSet,      \* indices of visWave written so far
    hLastWave,     \* index of the most recent write into visWave (-1 before the first)
    hPeak,         \* sum of the magnitudes of the output samples of the peak window in
                   \*   progress or just completed
    \* ---- station directory and what persists across boots
    stations,      \* Station stations[MAX_STATIONS]: id (0 = empty String) and fav of each entry
    needsRefresh,  \* bool needsRefresh
    cache,         \* /channels.json on flash: does it parse, and the station ids it lists
    prefsFavs,     \* NVS key "favs": ids of the favorite stations
    prefsLast,     \* NVS key "last": id of the last station played (0 = none)
    \* ---- history of the boot sequence (read by the properties only)
    hBoot,         \* how the last pass through the boot block ended
    hBootNet,      \* network operations that pass called: subset of {"wifi", "fetch"}
    \* ---- volume, keyboard and clock
    volume,        \* uint8_t volume
    prefsVol,      \* NVS key "vol"
    now,           \* millis()
    tLastKey,      \* unsigned long tLastKey
    kbEnter,       \* keysState().enter: the Enter key is held down
    kbOther,       \* another key is held down (Keyboard.isPressed() is kbEnter \/ kbOther)
    kbChange,      \* Keyboard.isChange(): the held keys changed since it was last asked
    \* ---- history of the input (read by the properties only)
    hAccAt,        \* millis() at the last input that was acted on (-1 before the first)
    \* ---- network and the Browser's list window
    wifiUp,        \* WiFi.status() == WL_CONNECTED
    hRefreshes,    \* history: deferred refreshes started since the device was switched on
    scrollOffset   \* int scrollOffset: index of the first station the Browser shows

ctlVars   == <<appState, selectedIdx, c_pc, c_blk, c_arg>>
audioVars == <<a_pc, cmd, idx, i, reg, audioSrc, mp3, nLive>>
sharedVars == <<aCmd, aTarget, aRunning, aPaused, playingIdx, stationCount>>
histVars  == <<hCmdBy, hLastKind, hLastIdx, hOver, hFailIdx, hQuiet, hConnFail, hRetries>>
sinkVars  == <<_buf, _bp, gainF2P6, _binAcc, _binIdx, _binCnt, _peakAcc, _peakCnt, _waveSub,
               visPeak, visBins, visWave, visWaveW, ret, inA, inB>>
sinkHist  == <<hN, hM, hWin, hWaveSet, hLastWave, hPeak>>
dirVars   == <<stations, needsRefresh, cache, prefsFavs, prefsLast, hBoot, hBootNet>>
keyVars   == <<volume, prefsVol, now, tLastKey, kbEnter, kbOther, kbChange, hAccAt>>
netVars   == <<wifiUp, hRefreshes>>
navVars   == <<scrollOffset>>
extVars   == <<sinkVars, sinkHist, dirVars, keyVars, netVars, navVars>>
vars == <<sharedVars, ctlVars, audioVars, histVars, extVars>>

Indices == 0 .. (NumStations - 1)

\* C's % operator (truncation towards zero), as used by the skip arithmetic.
CRem(a, b) == IF a >= 0 THEN a % b ELSE -((-a) % b)

TypeOK ==
    /\ aCmd \in {ACMD_NONE, ACMD_STOP, ACMD_PLAY}
    /\ aTarget \in -1 .. (NumStations - 1)
    /\ aRunning \in BOOLEAN /\ aPaused \in BOOLEAN
    /\ playingIdx \in -1 .. (NumStations - 1)
    /\ stationCount \in 0 .. NumStations
    /\ appState \in {"BOOT", "BROWSER", "PLAYING", "ERROR"}
    /\ selectedIdx \in Indices
    /\ cmd \in {ACMD_NONE, ACMD_STOP, ACMD_PLAY}
    /\ idx \in -1 .. (NumStations - 1)
    /\ i \in 0 .. RETRY_POLLS
    /\ audioSrc \in -1 .. (NumStations - 1)
    /\ mp3 \in {"null", "created", "running"}
    /\ nLive \in Nat

\* #define VIS_BINS / VIS_WAVE_N, DirectI2SOutput::BUF_SZ
VIS_BINS == 16
VIS_WAVE_N == 120
BUF_SZ == 512

\* the literals of ConsumeSample: samples per bin window (line 351), samples
\* per peak update (line 357), accepted samples per waveform capture (line 365)
BIN_WINDOW == 92
PEAK_WINDOW == 735
WAVE_DECIM == 11

\* #define DEFAULT_VOLUME (config.example.h); setVolume saturates at 255
DEFAULT_VOLUME == 100
MAX_VOLUME == 255

\* AudioOutput::SetGain((float)v / 200.0f) as called by setVolume (line 1249)
\* and setup (line 1429):  gainF2P6 = (uint8_t)(f * (1 << 6))
GainOf(v) == (v * 64) \div 200

\* Stereo frames the decoder may deliver: full scale of either sign, the
\* frame that the highest gain turns into the output sample -32768, and a
\* frame whose channel sum is odd and negative.
Frames == {<<-32768, -32768>>, <<32767, 32767>>, <<-25890, -25890>>, <<-1, 0>>}

\* Station ids; 0 stands for the empty String of an entry never filled.
Ids == 1 .. NumStations

\* stations[] as constructed (line 99) and the flags of lines 105-106; the
\* flash holds no directory and the preferences are empty.
DirInit ==
    /\ stations = [k \in Indices |-> [id |-> 0, fav |-> FALSE]]
    /\ needsRefresh = FALSE
    /\ cache = [valid |-> FALSE, dir |-> <<>>]
    /\ prefsFavs = {} /\ prefsLast = 0
    /\ hBoot = "none" /\ hBootNet = {}

\* The sink and the telemetry as constructed (lines 144-155, 289-293).
SinkInit ==
    /\ _buf = <<>> /\ _bp = 0
    /\ _binAcc = [k \in 0 .. (VIS_BINS - 1) |-> 0] /\ _binIdx = 0 /\ _binCnt = 0
    /\ _peakAcc = 0 /\ _peakCnt = 0 /\ _waveSub = 0
    /\ visPeak = 0
    /\ visBins = [k \in 0 .. (VIS_BINS - 1) |-> 0]
    /\ visWave = [k \in 0 .. (VIS_WAVE_N - 1) |-> 0] /\ visWaveW = 0
    /\ ret = "none"
    /\ hN = 0 /\ hM = 0 /\ hWin = <<>> /\ hWaveSet = {} /\ hLastWave = -1 /\ hPeak = 0

(***************************************************************************)
(* Initial state: the globals as initialised at lines 99-123, setup() has  *)
(* launched the audio task, loop() has not run yet.                        *)
(***************************************************************************)
\* line 128:  tLastKey = 0;  no key is down when the device is switched on
KeyInit ==
    /\ now = 0 /\ tLastKey = 0
    /\ kbEnter = FALSE /\ kbOther = FALSE /\ kbChange = FALSE
    /\ hAccAt = -1

\* setup() has called WiFi.begin (lines 1405-1406) and has not waited for it
NetInit == wifiUp = FALSE /\ hRefreshes = 0

\* line 102:  int scrollOffset = 0;
NavInit == scrollOffset = 0

ProtoInit ==
    /\ aCmd = ACMD_NONE /\ aTarget = -1
    /\ aRunning = FALSE /\ aPaused = FALSE
    /\ playingIdx = -1 /\ stationCount = 0
    /\ appState = "BOOT" /\ selectedIdx = 0
    /\ c_pc = "idle" /\ c_blk = "none" /\ c_arg = NoStation
    /\ a_pc = "top" /\ cmd = ACMD_NONE /\ idx = NoStation /\ i = 0 /\ reg = NoStation
    /\ audioSrc = NoStation /\ mp3 = "null" /\ nLive = 0
    /\ hCmdBy = "none" /\ hLastKind = "none" /\ hLastIdx = NoStation /\ hOver = FALSE
    /\ hFailIdx = NoStation /\ hQuiet = FALSE /\ hConnFail = FALSE /\ hRetries = 0
    /\ SinkInit
    /\ gainF2P6 = GainOf(DEFAULT_VOLUME) /\ inA = <<0, 0>> /\ inB = <<0, 0>>
    /\ volume = DEFAULT_VOLUME /\ prefsVol = volume
    /\ KeyInit /\ NetInit /\ NavInit

Init == ProtoInit /\ DirInit

InRange(x) == x >= 0 /\ x < stationCount

(***************************************************************************)
(* cleanupAudio(), lines 1168-1173: delete decoder, buffer and source if   *)
(* present, null the pointers, clear aRunning.  The three objects of a     *)
(* session are allocated together and deleted together.                    *)
(***************************************************************************)
cleanupAudio_noDelete ==
    /\ mp3' = "null"
    /\ audioSrc' = NoStation
    /\ nLive' = nLive
    /\ aRunning' = FALSE

cleanupAudio_keepRunning ==
    /\ mp3' = "null"
    /\ audioSrc' = NoStation
    /\ nLive' = IF mp3 # "null" THEN nLive - 1 ELSE nLive
    /\ aRunning' = aRunning

cleanupAudio ==
    /\ mp3' = "null"
    /\ audioSrc' = NoStation
    /\ nLive' = IF mp3 # "null" THEN nLive - 1 ELSE nLive
    /\ aRunning' = FALSE

\* The audio task goes back to the head of for(;;): its locals are dead.
BackToTop == a_pc' = "top" /\ cmd' = ACMD_NONE /\ idx' = NoStation

(***************************************************************************)
(* audioTask(), lines 1176-1227.                                           *)
(***************************************************************************)
\* line 1179-1180:  int cmd = aCmd;  if (cmd != ACMD_NONE) ...
A_Read ==
    /\ a_pc = "top"
    /\ cmd' = aCmd
    /\ a_pc' = IF aCmd # ACMD_NONE THEN "clear" ELSE "decode"
    /\ hConnFail' = IF aCmd # ACMD_NONE THEN FALSE ELSE hConnFail
    /\ hRetries' = IF aCmd # ACMD_NONE /\ hCmdBy = "ctl" THEN 0 ELSE hRetries
    /\ UNCHANGED <<sharedVars, ctlVars, idx, i, reg, audioSrc, mp3, nLive>>
    /\ UNCHANGED <<hCmdBy, hLastKind, hLastIdx, hOver, hFailIdx, hQuiet>>
    /\ UNCHANGED extVars

\* line 1181:  aCmd = ACMD_NONE;
A_Clear ==
    /\ a_pc = "clear"
    /\ aCmd' = ACMD_NONE
    /\ hCmdBy' = "none"
    /\ a_pc' = "cleanup"
    /\ UNCHANGED <<aTarget, aRunning, aPaused, playingIdx, stationCount, ctlVars>>
    /\ UNCHANGED <<cmd, idx, i, reg, audioSrc, mp3, nLive>>
    /\ UNCHANGED <<hLastKind, hLastIdx, hOver, hFailIdx, hQuiet, hConnFail, hRetries>>
    /\ UNCHANGED extVars

\* line 1182:  cleanupAudio();
A_Cleanup ==
    /\ a_pc = "cleanup"
    /\ cleanupAudio
    /\ a_pc' = "readTarget"
    /\ UNCHANGED <<aCmd, aTarget, aPaused, playingIdx, stationCount, ctlVars>>
    /\ UNCHANGED <<cmd, idx, i, reg, histVars>>
    /\ UNCHANGED extVars

\* lines 1185-1186:  if (cmd == ACMD_PLAY) { int idx = aTarget; ... } continue;
A_ReadTarget ==
    /\ a_pc = "readTarget"
    /\ IF cmd = ACMD_PLAY
         THEN idx' = aTarget /\ a_pc' = "connect" /\ cmd' = cmd
         ELSE BackToTop
    /\ UNCHANGED <<sharedVars, ctlVars, i, reg, audioSrc, mp3, nLive, histVars>>
    /\ UNCHANGED extVars

\* lines 1187-1194:  if (idx >= 0 && idx < stationCount) { audioSrc = new ...;
\*                   audioBuf = new ...; mp3 = new ...;
A_Connect ==
    /\ a_pc = "connect"
    /\ IF InRange(idx)
         THEN /\ audioSrc' = idx
              /\ mp3' = "created"
              /\ nLive' = nLive + 1
              /\ a_pc' = "begin"
              /\ UNCHANGED <<cmd, idx>>
         ELSE /\ BackToTop
              /\ UNCHANGED <<audioSrc, mp3, nLive>>
    /\ UNCHANGED <<sharedVars, ctlVars, i, reg, histVars>>
    /\ UNCHANGED extVars

\* lines 1196-1197:  if (mp3->begin(audioBuf, audioOut)) { aRunning = true;
\* begin() opens the stream: it succeeds or fails as the network decides.
A_Begin ==
    /\ a_pc = "begin"
    /\ \/ /\ mp3' = "running"
          /\ aRunning' = TRUE
          /\ a_pc' = "setPlayingIdx"
          /\ hRetries' = 0
       \/ /\ a_pc' = "beginFailed"
          /\ UNCHANGED <<mp3, aRunning, hRetries>>
    /\ UNCHANGED <<aCmd, aTarget, aPaused, playingIdx, stationCount, ctlVars>>
    /\ UNCHANGED <<cmd, idx, i, reg, audioSrc, nLive>>
    /\ UNCHANGED <<hCmdBy, hLastKind, hLastIdx, hOver, hFailIdx, hQuiet, hConnFail>>
    /\ UNCHANGED extVars

\* line 1198:  playingIdx = idx;  then  continue;
A_SetPlayingIdx ==
    /\ a_pc = "setPlayingIdx"
    /\ playingIdx' = idx
    /\ BackToTop
    /\ UNCHANGED <<aCmd, aTarget, aRunning, aPaused, stationCount, ctlVars>>
    /\ UNCHANGED <<i, reg, audioSrc, mp3, nLive, histVars>>
    /\ UNCHANGED extVars

\* lines 1200-1203:  else { cleanupAudio(); }  then  continue;   (no retry)
A_BeginFailed_retry ==
    /\ a_pc = "beginFailed"
    /\ cleanupAudio
    /\ aTarget' = idx
    /\ aCmd' = ACMD_PLAY
    /\ hCmdBy' = "audio"
    /\ hRetries' = hRetries + 1
    /\ BackToTop
    /\ hConnFail' = TRUE
    /\ UNCHANGED <<aPaused, playingIdx, stationCount, ctlVars>>
    /\ UNCHANGED <<i, reg, hLastKind, hLastIdx, hOver, hFailIdx, hQuiet>>
    /\ UNCHANGED extVars

A_BeginFailed_noCleanup ==
    /\ a_pc = "beginFailed"
    /\ BackToTop
    /\ hConnFail' = TRUE
    /\ UNCHANGED <<sharedVars, ctlVars, audioSrc, mp3, nLive>>
    /\ UNCHANGED <<i, reg, hCmdBy, hLastKind, hLastIdx, hOver, hFailIdx, hQuiet, hRetries>>
    /\ UNCHANGED extVars

A_BeginFailed ==
    /\ a_pc = "beginFailed"
    /\ cleanupAudio
    /\ BackToTop
    /\ hConnFail' = TRUE
    /\ UNCHANGED <<aCmd, aTarget, aPaused, playingIdx, stationCount, ctlVars>>
    /\ UNCHANGED <<i, reg, hCmdBy, hLastKind, hLastIdx, hOver, hFailIdx, hQuiet, hRetries>>
    /\ UNCHANGED extVars

A_Decode_retryNow ==
    /\ a_pc = "decode"
    /\ \/ /\ BackToTop
          /\ UNCHANGED <<aCmd, aTarget, hCmdBy, hRetries>>
       \/ /\ mp3 = "running"
          /\ aTarget' = playingIdx
          /\ aCmd' = ACMD_PLAY
          /\ hCmdBy' = "audio"
          /\ hRetries' = hRetries + 1
          /\ BackToTop
    /\ UNCHANGED <<aRunning, aPaused, playingIdx, stationCount, ctlVars>>
    /\ UNCHANGED <<i, reg, audioSrc, mp3, nLive>>
    /\ UNCHANGED <<hLastKind, hLastIdx, hOver, hFailIdx, hQuiet, hConnFail>>
    /\ UNCHANGED extVars

\* lines 1210-1211, 1225:  if (mp3 && mp3->isRunning()) { if (!mp3->loop()) ...
\* loop() decodes one frame; it returns false when the stream ends or breaks.
A_Decode ==
    /\ a_pc = "decode"
    /\ \/ /\ BackToTop
          /\ UNCHANGED <<hFailIdx, hQuiet>>
       \/ /\ mp3 = "running"
          /\ a_pc' = "failed"
          /\ hFailIdx' = audioSrc
          /\ hQuiet' = (c_pc = "idle")
          /\ UNCHANGED <<cmd, idx>>
    /\ UNCHANGED <<sharedVars, ctlVars, i, reg, audioSrc, mp3, nLive>>
    /\ UNCHANGED <<hCmdBy, hLastKind, hLastIdx, hOver, hConnFail, hRetries>>
    /\ UNCHANGED extVars

\* line 1213:  cleanupAudio();  and the loop initialisation  int i = 0
A_RetryCleanup ==
    /\ a_pc = "failed"
    /\ cleanupAudio
    /\ i' = 0
    /\ a_pc' = "poll"
    /\ UNCHANGED <<aCmd, aTarget, aPaused, playingIdx, stationCount, ctlVars>>
    /\ UNCHANGED <<cmd, idx, reg, histVars>>
    /\ UNCHANGED extVars

A_Poll_deaf ==
    /\ a_pc = "poll"
    /\ IF i < RETRY_POLLS
         THEN i' = i + 1 /\ a_pc' = "poll"
         ELSE i' = 0 /\ a_pc' = "retryCheck"
    /\ UNCHANGED <<sharedVars, ctlVars, cmd, idx, reg, audioSrc, mp3, nLive, histVars>>
    /\ UNCHANGED extVars

\* lines 1215-1216:  for (...; i < 20 && aCmd == ACMD_NONE; i++) vTaskDelay(100 ms);
A_Poll ==
    /\ a_pc = "poll"
    /\ IF i < RETRY_POLLS /\ aCmd = ACMD_NONE
         THEN i' = i + 1 /\ a_pc' = "poll"
         ELSE i' = 0 /\ a_pc' = "retryCheck"
    /\ UNCHANGED <<sharedVars, ctlVars, cmd, idx, reg, audioSrc, mp3, nLive, histVars>>
    /\ UNCHANGED extVars

\* line 1218:  if (aCmd == ACMD_NONE) { ... }   else fall through to vTaskDelay(1)
A_RetryCheck ==
    /\ a_pc = "retryCheck"
    /\ IF aCmd = ACMD_NONE
         THEN a_pc' = "retryLoad" /\ UNCHANGED <<cmd, idx, hFailIdx, hQuiet>>
         ELSE BackToTop /\ hFailIdx' = NoStation /\ hQuiet' = FALSE
    /\ UNCHANGED <<sharedVars, ctlVars, i, reg, audioSrc, mp3, nLive>>
    /\ UNCHANGED <<hCmdBy, hLastKind, hLastIdx, hOver, hConnFail, hRetries>>
    /\ UNCHANGED extVars

\* line 1219, right-hand side:  load playingIdx
A_RetryLoad ==
    /\ a_pc = "retryLoad"
    /\ reg' = playingIdx
    /\ a_pc' = "retryTarget"
    /\ UNCHANGED <<sharedVars, ctlVars, cmd, idx, i, audioSrc, mp3, nLive, histVars>>
    /\ UNCHANGED extVars

\* line 1219, store:  aTarget = playingIdx;
A_RetryTarget ==
    /\ a_pc = "retryTarget"
    /\ aTarget' = reg
    /\ reg' = NoStation
    /\ a_pc' = "retryPublish"
    /\ UNCHANGED <<aCmd, aRunning, aPaused, playingIdx, stationCount, ctlVars>>
    /\ UNCHANGED <<cmd, idx, i, audioSrc, mp3, nLive, histVars>>
    /\ UNCHANGED extVars

\* line 1220:  aCmd = ACMD_PLAY;   then vTaskDelay(1) and the next iteration
A_RetryPublish ==
    /\ a_pc = "retryPublish"
    /\ aCmd' = ACMD_PLAY
    /\ hCmdBy' = "audio"
    /\ hRetries' = hRetries + 1
    /\ hFailIdx' = NoStation
    /\ hQuiet' = FALSE
    /\ BackToTop
    /\ UNCHANGED <<aTarget, aRunning, aPaused, playingIdx, stationCount, ctlVars>>
    /\ UNCHANGED <<i, reg, audioSrc, mp3, nLive>>
    /\ UNCHANGED <<hLastKind, hLastIdx, hOver, hConnFail>>
    /\ UNCHANGED extVars

AudioTask ==
    \/ A_Read \/ A_Clear \/ A_Cleanup \/ A_ReadTarget \/ A_Connect \/ A_Begin
    \/ A_SetPlayingIdx \/ A_BeginFailed \/ A_Decode \/ A_RetryCleanup \/ A_Poll
    \/ A_RetryCheck \/ A_RetryLoad \/ A_RetryTarget \/ A_RetryPublish


(***************************************************************************)
(* Control context: loop(), lines 1441-1515, and the key handlers.         *)
(*                                                                         *)
(* A handler tests the pressed keys in a fixed order, one `if` block per   *)
(* key, and any subset of keys may be down in one event.  c_blk is the     *)
(* block executed last; a later block of the same handler may follow it    *)
(* in the same pass.                                                       *)
(***************************************************************************)
BrowserBlocks == {"B_up", "B_down", "B_pgup", "B_pgdn", "B_enter", "B_space", "B_fav", "B_voldn", "B_volup"}
PlayerBlocks  == {"P_del", "P_x", "P_fav", "P_space", "P_voldn", "P_volup", "P_next", "P_prev"}

\* Position of each `if` block inside its handler (handleBrowserKeys lines
\* 1282-1326, handlePlayerKeys lines 1341-1369).
KeyOrder(k) ==
    CASE k = "B_up" -> 1 [] k = "B_down" -> 2 [] k = "B_pgup" -> 3 [] k = "B_pgdn" -> 4
      [] k = "B_enter" -> 5 [] k = "B_space" -> 6
      [] k = "B_fav" -> 7 [] k = "B_voldn" -> 9 [] k = "B_volup" -> 10
      [] k = "P_del" -> 1 [] k = "P_x" -> 2 [] k = "P_fav" -> 3 [] k = "P_space" -> 4
      [] k = "P_voldn" -> 6 [] k = "P_volup" -> 7
      [] k = "P_next" -> 8 [] k = "P_prev" -> 9
      [] OTHER -> 0

SameHandler(k) ==
    \/ k \in BrowserBlocks /\ c_blk \in BrowserBlocks \cup {"B_start"}
    \/ k \in PlayerBlocks  /\ c_blk \in PlayerBlocks \cup {"P_start"}

\* The handler reaches the block of key k and the key is down.
AtKey(k) == c_pc = "keys" /\ SameHandler(k) /\ KeyOrder(k) > KeyOrder(c_blk)

\* A Play for a station other than b is in the slot or being handled by the
\* audio task (and no Stop is in the slot).
PlayPendingOther(b) ==
    \/ /\ aCmd = ACMD_PLAY /\ InRange(aTarget) /\ aTarget # b
    \/ /\ aCmd = ACMD_NONE
       /\ cmd = ACMD_PLAY /\ a_pc \in {"cleanup", "readTarget"}
       /\ InRange(aTarget) /\ aTarget # b
    \/ /\ aCmd = ACMD_NONE
       /\ cmd = ACMD_PLAY /\ a_pc \in {"connect", "begin", "setPlayingIdx", "beginFailed"}
       /\ InRange(idx) /\ idx # b

\* History: the control context calls startPlaying(b) / stopPlaying().
IssuePlay(b) == hLastKind' = "play" /\ hLastIdx' = b /\ hOver' = (InRange(b) /\ PlayPendingOther(b))
IssueStop    == hLastKind' = "stop" /\ hLastIdx' = NoStation /\ hOver' = FALSE

\* lines 1445-1472: boot sequence.  The directory is loaded from the cache or
\* the network (stationCount > 0, selection restored by restoreLastStation),
\* or neither is available and the application shows the error screen.
\* Here the directory is the stations 1 .. n in that order, none a favorite;
\* DirSpec below has the boot sequence in full.
C_Boot ==
    /\ c_pc = "idle" /\ appState = "BOOT"
    /\ \/ \E n \in 1 .. NumStations : \E s \in 0 .. (n - 1) :
            /\ stationCount' = n
            /\ stations' = [k \in Indices |-> [id |-> IF k < n THEN k + 1 ELSE 0, fav |-> FALSE]]
            /\ selectedIdx' = s
            /\ appState' = "BROWSER"
       \/ /\ appState' = "ERROR"
          /\ UNCHANGED <<stationCount, selectedIdx, stations>>
    /\ UNCHANGED <<aCmd, aTarget, aRunning, aPaused, playingIdx, c_pc, c_blk, c_arg>>
    /\ UNCHANGED <<audioVars, histVars>>
    /\ UNCHANGED <<sinkVars, sinkHist, keyVars, netVars, navVars>>
    /\ UNCHANGED <<needsRefresh, cache, prefsFavs, prefsLast, hBoot, hBootNet>>

\* handleErrorKeys, lines 1372-1376:  if (ks.enter) appState = STATE_BOOT;
C_ErrorKeys ==
    /\ c_pc = "idle" /\ appState = "ERROR"
    /\ appState' = "BOOT"
    /\ UNCHANGED <<sharedVars, selectedIdx, c_pc, c_blk, c_arg, audioVars, histVars>>
    /\ UNCHANGED extVars

\* lines 1275-1280 / 1335-1339: a key event passes the edge and debounce tests.
C_Pass ==
    /\ c_pc = "idle" /\ appState \in {"BROWSER", "PLAYING"}
    /\ c_pc' = "keys"
    /\ c_blk' = IF appState = "BROWSER" THEN "B_start" ELSE "P_start"
    /\ hQuiet' = FALSE
    /\ UNCHANGED <<sharedVars, appState, selectedIdx, c_arg, audioVars>>
    /\ UNCHANGED <<hCmdBy, hLastKind, hLastIdx, hOver, hFailIdx, hConnFail, hRetries>>
    /\ UNCHANGED extVars

\* the handler returns
C_EndPass ==
    /\ c_pc = "keys"
    /\ c_pc' = "idle" /\ c_blk' = "none"
    /\ UNCHANGED <<sharedVars, appState, selectedIdx, c_arg, audioVars, histVars>>
    /\ UNCHANGED extVars

\* lines 1331-1334:  if (M5.BtnA.wasPressed()) { appState = STATE_BROWSER; return; }
C_BtnA ==
    /\ c_pc = "idle" /\ appState = "PLAYING"
    /\ appState' = "BROWSER"
    /\ UNCHANGED <<sharedVars, selectedIdx, c_pc, c_blk, c_arg, audioVars, histVars>>
    /\ UNCHANGED extVars

\* lines 1282-1287:  ';' / 'w'
C_Up ==
    /\ AtKey("B_up")
    /\ c_blk' = "B_up"
    /\ selectedIdx' = IF selectedIdx > 0 THEN selectedIdx - 1 ELSE selectedIdx
    /\ scrollOffset' = IF selectedIdx > 0 /\ selectedIdx - 1 < scrollOffset
                         THEN selectedIdx - 1 ELSE scrollOffset
    /\ UNCHANGED <<sharedVars, appState, c_pc, c_arg, audioVars, histVars>>
    /\ UNCHANGED <<sinkVars, sinkHist, dirVars, keyVars, netVars>>

C_Down_noScroll ==
    /\ AtKey("B_down")
    /\ c_blk' = "B_down"
    /\ selectedIdx' = IF selectedIdx < stationCount - 1 THEN selectedIdx + 1 ELSE selectedIdx
    /\ UNCHANGED <<sharedVars, appState, c_pc, c_arg, audioVars, histVars>>
    /\ UNCHANGED extVars

\* lines 1288-1294:  '.' / 's'
C_Down ==
    /\ AtKey("B_down")
    /\ c_blk' = "B_down"
    /\ selectedIdx' = IF selectedIdx < stationCount - 1 THEN selectedIdx + 1 ELSE selectedIdx
    /\ scrollOffset' = IF selectedIdx < stationCount - 1
                            /\ selectedIdx + 1 >= scrollOffset + VISIBLE_LINES
                         THEN selectedIdx + 1 - VISIBLE_LINES + 1 ELSE scrollOffset
    /\ UNCHANGED <<sharedVars, appState, c_pc, c_arg, audioVars, histVars>>
    /\ UNCHANGED <<sinkVars, sinkHist, dirVars, keyVars, netVars>>

\* lines 1305-1308:  if (ks.enter) { ...; startPlaying(selectedIdx);
\* with the first statement of startPlaying, line 1230:  aPaused = false;
C_Enter ==
    /\ AtKey("B_enter")
    /\ c_blk' = "B_enter"
    /\ c_arg' = selectedIdx
    /\ aPaused' = FALSE
    /\ c_pc' = "sp2"
    /\ IssuePlay(selectedIdx)
    /\ UNCHANGED <<aCmd, aTarget, aRunning, playingIdx, stationCount, appState, selectedIdx>>
    /\ UNCHANGED <<audioVars, hCmdBy, hFailIdx, hQuiet, hConnFail, hRetries>>
    /\ UNCHANGED extVars

\* lines 1312-1318:  if (hasKey(' ')) { if (playingIdx >= 0) ... else startPlaying(selectedIdx)
C_BrowserSpace ==
    /\ AtKey("B_space")
    /\ c_blk' = "B_space"
    /\ IF playingIdx >= 0
         THEN /\ c_pc' = "toggle"
              /\ UNCHANGED <<c_arg, hLastKind, hLastIdx, hOver>>
         ELSE /\ c_pc' = "sp1"
              /\ c_arg' = selectedIdx
              /\ IssuePlay(selectedIdx)
    /\ UNCHANGED <<sharedVars, appState, selectedIdx>>
    /\ UNCHANGED <<audioVars, hCmdBy, hFailIdx, hQuiet, hConnFail, hRetries>>
    /\ UNCHANGED extVars

\* aPaused = !aPaused;   (line 1314 and line 1350)
pauseToggle_viaStop ==
    /\ aPaused' = ~aPaused
    /\ aCmd' = IF aPaused THEN ACMD_PLAY ELSE ACMD_STOP
    /\ UNCHANGED <<aTarget, aRunning, playingIdx, stationCount>>

pauseToggle ==
    /\ aPaused' = ~aPaused
    /\ UNCHANGED <<aCmd, aTarget, aRunning, playingIdx, stationCount>>

\* line 1314
C_BrowserToggle ==
    /\ c_pc = "toggle"
    /\ pauseToggle
    /\ c_pc' = "keys"
    /\ UNCHANGED <<appState, selectedIdx, c_blk, c_arg, audioVars, histVars>>
    /\ UNCHANGED extVars

\* lines 1341-1343:  if (ks.del) appState = STATE_BROWSER;
C_Del ==
    /\ AtKey("P_del")
    /\ c_blk' = "P_del"
    /\ appState' = "BROWSER"
    /\ UNCHANGED <<sharedVars, selectedIdx, c_pc, c_arg, audioVars, histVars>>
    /\ UNCHANGED extVars

\* variant of the 'x' block that goes back without calling stopPlaying()
C_X_noStop ==
    /\ AtKey("P_x")
    /\ c_blk' = "P_x"
    /\ c_pc' = "x3"
    /\ UNCHANGED <<sharedVars, appState, selectedIdx, c_arg, audioVars, histVars>>
    /\ UNCHANGED extVars

\* lines 1344-1345:  if (hasKey('x')) { stopPlaying();
\* with the first statement of stopPlaying, line 1243:  aPaused = false;
C_X ==
    /\ AtKey("P_x")
    /\ c_blk' = "P_x"
    /\ aPaused' = FALSE
    /\ c_pc' = "st2"
    /\ IssueStop
    /\ UNCHANGED <<aCmd, aTarget, aRunning, playingIdx, stationCount>>
    /\ UNCHANGED <<appState, selectedIdx, c_arg>>
    /\ UNCHANGED <<audioVars, hCmdBy, hFailIdx, hQuiet, hConnFail, hRetries>>
    /\ UNCHANGED extVars

\* stopPlaying, line 1244:  aCmd = ACMD_STOP;
C_StopCmd ==
    /\ c_pc = "st2"
    /\ aCmd' = ACMD_STOP
    /\ hCmdBy' = "ctl"
    /\ c_pc' = "x3"
    /\ UNCHANGED <<aTarget, aRunning, aPaused, playingIdx, stationCount>>
    /\ UNCHANGED <<appState, selectedIdx, c_blk, c_arg, audioVars>>
    /\ UNCHANGED <<hLastKind, hLastIdx, hOver, hFailIdx, hQuiet, hConnFail, hRetries>>
    /\ UNCHANGED extVars

\* lines 1346-1347:  playingIdx = -1;  appState = STATE_BROWSER;
C_XDone ==
    /\ c_pc = "x3"
    /\ playingIdx' = -1
    /\ appState' = "BROWSER"
    /\ c_pc' = "keys"
    /\ UNCHANGED <<aCmd, aTarget, aRunning, aPaused, stationCount>>
    /\ UNCHANGED <<selectedIdx, c_blk, c_arg, audioVars, histVars>>
    /\ UNCHANGED extVars

\* line 1350:  if (hasKey(' ')) aPaused = !aPaused;
C_PlayerToggle ==
    /\ AtKey("P_space")
    /\ c_blk' = "P_space"
    /\ pauseToggle
    /\ UNCHANGED <<appState, selectedIdx, c_pc, c_arg, audioVars, histVars>>
    /\ UNCHANGED extVars

\* x % 0 is undefined; the build for the ESP32-S3 executes a divide
\* instruction that raises IntegerDivideByZero and the chip panics: the
\* handler does not continue.
DivideByZero ==
    /\ c_pc' = "crash"
    /\ UNCHANGED <<selectedIdx, c_arg, hLastKind, hLastIdx, hOver>>

\* lines 1354-1359:  int next = (playingIdx + 1) % stationCount; selectedIdx = next;
\*                   ...; startPlaying(next);
C_Next ==
    /\ AtKey("P_next")
    /\ c_blk' = "P_next"
    /\ IF stationCount = 0
         THEN DivideByZero
         ELSE LET next == CRem(playingIdx + 1, stationCount) IN
                /\ selectedIdx' = next
                /\ c_arg' = next
                /\ IssuePlay(next)
                /\ c_pc' = "sp1"
    /\ UNCHANGED <<sharedVars, appState>>
    /\ UNCHANGED <<audioVars, hCmdBy, hFailIdx, hQuiet, hConnFail, hRetries>>
    /\ UNCHANGED extVars

\* lines 1362-1367:  int prev = (playingIdx - 1 + stationCount) % stationCount; ...
C_Prev ==
    /\ AtKey("P_prev")
    /\ c_blk' = "P_prev"
    /\ IF stationCount = 0
         THEN DivideByZero
         ELSE LET prev == CRem(playingIdx - 1 + stationCount, stationCount) IN
                /\ selectedIdx' = prev
                /\ c_arg' = prev
                /\ IssuePlay(prev)
                /\ c_pc' = "sp1"
    /\ UNCHANGED <<sharedVars, appState>>
    /\ UNCHANGED <<audioVars, hCmdBy, hFailIdx, hQuiet, hConnFail, hRetries>>
    /\ UNCHANGED extVars

(***************************************************************************)
(* startPlaying(idx), lines 1229-1240, one step per shared write.          *)
(***************************************************************************)
C_PlayUnpause_keepPause ==
    /\ c_pc = "sp1"
    /\ c_pc' = "sp2"
    /\ UNCHANGED <<sharedVars, appState, selectedIdx, c_blk, c_arg, audioVars, histVars>>
    /\ UNCHANGED extVars

\* line 1230:  aPaused = false;
C_PlayUnpause ==
    /\ c_pc = "sp1"
    /\ aPaused' = FALSE
    /\ c_pc' = "sp2"
    /\ UNCHANGED <<aCmd, aTarget, aRunning, playingIdx, stationCount>>
    /\ UNCHANGED <<appState, selectedIdx, c_blk, c_arg, audioVars, histVars>>
    /\ UNCHANGED extVars

\* lines 1231-1232:  playingIdx = idx;  selectedIdx = idx;
C_PlayIdx ==
    /\ c_pc = "sp2"
    /\ playingIdx' = c_arg
    /\ selectedIdx' = c_arg
    /\ c_pc' = "sp3"
    /\ UNCHANGED <<aCmd, aTarget, aRunning, aPaused, stationCount>>
    /\ UNCHANGED <<appState, c_blk, c_arg, audioVars, histVars>>
    /\ UNCHANGED extVars

\* line 1233:  aTarget = idx;
C_PlayTarget ==
    /\ c_pc = "sp3"
    /\ aTarget' = c_arg
    /\ c_pc' = "sp4"
    /\ UNCHANGED <<aCmd, aRunning, aPaused, playingIdx, stationCount>>
    /\ UNCHANGED <<appState, selectedIdx, c_blk, c_arg, audioVars, histVars>>
    /\ UNCHANGED extVars

\* line 1234:  aCmd = ACMD_PLAY;   line 1238:  saveLastStation();   and the caller's tail
\* (lines 1309 / 1319:  appState = STATE_PLAYING;  in handleBrowserKeys)
C_PlayCmd ==
    /\ c_pc = "sp4"
    /\ aCmd' = ACMD_PLAY
    /\ hCmdBy' = "ctl"
    /\ appState' = IF c_blk \in BrowserBlocks THEN "PLAYING" ELSE appState
    /\ c_arg' = NoStation
    /\ c_pc' = "keys"
    /\ UNCHANGED <<aTarget, aRunning, aPaused, playingIdx, stationCount>>
    /\ prefsLast' = IF InRange(selectedIdx) THEN stations[selectedIdx].id ELSE prefsLast
    /\ UNCHANGED <<selectedIdx, c_blk, audioVars>>
    /\ UNCHANGED <<hLastKind, hLastIdx, hOver, hFailIdx, hQuiet, hConnFail, hRetries>>
    /\ UNCHANGED <<sinkVars, sinkHist, keyVars, netVars, navVars>>
    /\ UNCHANGED <<stations, needsRefresh, cache, prefsFavs, hBoot, hBootNet>>

\* Steps the control context takes on its own once a handler has been entered.
ControlRun ==
    \/ C_EndPass \/ C_BrowserToggle \/ C_StopCmd \/ C_XDone
    \/ C_PlayUnpause \/ C_PlayIdx \/ C_PlayTarget \/ C_PlayCmd

\* Steps that depend on the user or on the environment at boot.
ControlInput ==
    \/ C_Boot \/ C_ErrorKeys \/ C_Pass \/ C_BtnA
    \/ C_Up \/ C_Down \/ C_Enter \/ C_BrowserSpace
    \/ C_Del \/ C_X \/ C_PlayerToggle \/ C_Next \/ C_Prev

Control == ControlRun \/ ControlInput

Next == AudioTask \/ Control

Spec == Init /\ [][Next]_vars

\* The audio task is a FreeRTOS task of its own core and is always scheduled;
\* loop() is called again and again, so a handler that was entered returns.
FairSpec == Spec /\ WF_vars(AudioTask) /\ WF_vars(ControlRun)


(***************************************************************************)
(* The output sink: DirectI2SOutput::ConsumeSample, lines 331-377, called  *)
(* by the decoder once per decoded stereo frame, and the telemetry it      *)
(* extracts.  One call is one step of the audio task.                      *)
(***************************************************************************)
\* C's / (truncation towards zero) and the integer conversions of the sink
CDiv(a, b) == IF a >= 0 THEN a \div b ELSE -((-a) \div b)
ToInt16(x) == ((x + 32768) % 65536) - 32768
ToInt8(x) == ((x + 128) % 256) - 128
ToUint16(x) == x % 65536
Min(a, b) == IF a < b THEN a ELSE b
Max(a, b) == IF a > b THEN a ELSE b

\* The uint32_t accumulators hold at most PEAK_WINDOW values of 16 bits and
\* never wrap (SinkTypeOK), so their additions are plain additions.

\* the frame the decoder offers next; a refused frame is offered again
Frame == IF hN % 3 = 0 THEN inA ELSE inB

\* line 332:  if (aCmd != ACMD_NONE) return false;
Refuse_onlyStop == aCmd = ACMD_STOP

Refuse == aCmd # ACMD_NONE

\* lines 334-340: silence while paused, else the channel mean scaled by the
\* gain:  mono = (L + R) / 2;  mono = (int16_t)(((int32_t)mono * gainF2P6) >> 6);
MonoOf_noPause(sample) ==
    ToInt16((CDiv(sample[1] + sample[2], 2) * gainF2P6) \div 64)

MonoOf(sample) ==
    IF aPaused THEN 0
    ELSE ToInt16((CDiv(sample[1] + sample[2], 2) * gainF2P6) \div 64)

\* line 345:  uint16_t absMono = (mono < 0) ? -mono : mono;
AbsMono_noAbs(mono) == ToUint16(mono)

AbsMono(mono) == ToUint16(IF mono < 0 THEN -mono ELSE mono)

\* line 351:  if (_binCnt >= 92)
WindowDone_late(cnt) == cnt > BIN_WINDOW

WindowDone(cnt) == cnt >= BIN_WINDOW

\* line 368:  visWaveW = (visWaveW + 1) % VIS_WAVE_N;
NextWaveW_noWrap(w) == IF w + 1 > VIS_WAVE_N THEN 0 ELSE w + 1

NextWaveW(w) == (w + 1) % VIS_WAVE_N

\* line 371:  if (_bp >= BUF_SZ)
BlockFull_late(bp) == bp > BUF_SZ

BlockFull(bp) == bp >= BUF_SZ

\* line 358:  min(32767u, (uint32_t)(_peakAcc / _peakCnt))
PeakOf_noClamp(acc, cnt) == acc \div cnt

PeakOf(acc, cnt) == Min(32767, acc \div cnt)

ConsumeSample ==
    /\ mp3 = "running"
    /\ IF Refuse
         THEN /\ ret' = "false"
              /\ UNCHANGED <<_buf, _bp, _binAcc, _binIdx, _binCnt, _peakAcc, _peakCnt, _waveSub>>
              /\ UNCHANGED <<visPeak, visBins, visWave, visWaveW, sinkHist>>
         ELSE LET mono    == MonoOf(Frame)
                  absMono == AbsMono(mono)
                  acc     == _binAcc[_binIdx] + absMono
                  cnt     == _binCnt + 1
                  pacc    == _peakAcc + absMono
                  pcnt    == _peakCnt + 1
                  sub     == _waveSub + 1
              IN  /\ ret' = "true"
                  \* lines 341-342
                  /\ _buf' = IF BlockFull(_bp + 2) THEN <<>> ELSE _buf \o <<mono, mono>>
                  \* lines 346-356
                  /\ IF WindowDone(cnt)
                       THEN /\ visBins' = [visBins EXCEPT
                                              ![_binIdx] = Min(255, (acc \div cnt) \div 32)]
                            /\ _binAcc' = [_binAcc EXCEPT ![_binIdx] = 0]
                            /\ _binCnt' = 0
                            /\ _binIdx' = (_binIdx + 1) % VIS_BINS
                       ELSE /\ _binAcc' = [_binAcc EXCEPT ![_binIdx] = acc]
                            /\ _binCnt' = cnt
                            /\ UNCHANGED <<visBins, _binIdx>>
                  \* lines 357-361
                  /\ IF pcnt >= PEAK_WINDOW
                       THEN visPeak' = PeakOf(pacc, pcnt) /\ _peakAcc' = 0 /\ _peakCnt' = 0
                       ELSE _peakAcc' = pacc /\ _peakCnt' = pcnt /\ UNCHANGED visPeak
                  \* lines 364-369
                  /\ IF sub >= WAVE_DECIM
                       THEN /\ _waveSub' = 0
                            /\ visWave' = [visWave EXCEPT ![visWaveW] = ToInt8(mono \div 256)]
                            /\ visWaveW' = NextWaveW(visWaveW)
                            /\ hM' = hM + 1
                            /\ hWaveSet' = hWaveSet \cup {visWaveW}
                            /\ hLastWave' = visWaveW
                       ELSE /\ _waveSub' = sub
                            /\ UNCHANGED <<visWave, visWaveW, hM, hWaveSet, hLastWave>>
                  \* lines 371-375: a full block is handed to the I2S driver and
                  \* the buffer is empty again
                  /\ _bp' = IF BlockFull(_bp + 2) THEN 0 ELSE _bp + 2
                  /\ hN' = hN + 1
                  /\ hWin' = IF Len(hWin) >= BIN_WINDOW THEN <<mono>> ELSE Append(hWin, mono)
                  /\ hPeak' = (IF hN % PEAK_WINDOW = 0 THEN 0 ELSE hPeak)
                                + (IF mono < 0 THEN -mono ELSE mono)
    /\ UNCHANGED <<gainF2P6, inA, inB>>
    /\ UNCHANGED <<sharedVars, ctlVars, audioVars, histVars, dirVars, keyVars, netVars, navVars>>

(***************************************************************************)
(* SinkSpec: a session is playing and the decoder feeds the sink.  The     *)
(* stream is the frame pattern inA, inB, inB, ... drawn at the start; the  *)
(* gain is that of the default or of the highest volume.  Around the sink  *)
(* the control context publishes commands and toggles the pause, and the   *)
(* audio task picks a command up, tears the session down (the decoder's    *)
(* stop() calls the sink's stop(), lines 325-329) and starts the next one. *)
(***************************************************************************)
\* samples fed during one run
MaxSamples == 1500

\* sample counts at which the user acts
CommandAt == {100, 1400}
PauseAt == {50, 1350}

SinkSpecInit ==
    /\ aCmd = ACMD_NONE /\ aTarget = 0
    /\ aRunning = TRUE /\ aPaused = FALSE
    /\ playingIdx = 0 /\ stationCount = 1
    /\ appState = "PLAYING" /\ selectedIdx = 0
    /\ c_pc = "idle" /\ c_blk = "none" /\ c_arg = NoStation
    /\ a_pc = "decode" /\ cmd = ACMD_NONE /\ idx = NoStation /\ i = 0 /\ reg = NoStation
    /\ audioSrc = 0 /\ mp3 = "running" /\ nLive = 1
    /\ hCmdBy = "none" /\ hLastKind = "play" /\ hLastIdx = 0 /\ hOver = FALSE
    /\ hFailIdx = NoStation /\ hQuiet = FALSE /\ hConnFail = FALSE /\ hRetries = 0
    /\ SinkInit
    /\ stations = [k \in Indices |-> [id |-> IF k = 0 THEN 1 ELSE 0, fav |-> FALSE]]
    /\ needsRefresh = FALSE /\ cache = [valid |-> FALSE, dir |-> <<>>]
    /\ prefsFavs = {} /\ prefsLast = 1 /\ hBoot = "none" /\ hBootNet = {}
    /\ volume \in {DEFAULT_VOLUME, MAX_VOLUME} /\ prefsVol = volume
    /\ gainF2P6 = GainOf(volume)
    /\ KeyInit /\ NetInit /\ NavInit
    /\ inA \in Frames /\ inB \in Frames

\* the decoder has a frame for the sink
S_Sample == hN < MaxSamples /\ ConsumeSample

\* startPlaying line 1234 / stopPlaying line 1244 store a command
S_Command ==
    /\ hN \in CommandAt /\ aCmd = ACMD_NONE
    /\ aCmd' \in {ACMD_STOP, ACMD_PLAY}
    /\ hCmdBy' = "ctl"
    /\ UNCHANGED <<aTarget, aRunning, aPaused, playingIdx, stationCount>>
    /\ UNCHANGED <<ctlVars, audioVars, extVars>>
    /\ UNCHANGED <<hLastKind, hLastIdx, hOver, hFailIdx, hQuiet, hConnFail, hRetries>>

\* audioTask lines 1179-1198: the command is taken from the slot, the session
\* is torn down (sink stop(): _bp = 0) and, for a Play, the next one is begun.
S_Handle ==
    /\ aCmd # ACMD_NONE
    /\ aCmd' = ACMD_NONE
    /\ hCmdBy' = "none"
    /\ _bp' = 0 /\ _buf' = <<>>
    /\ mp3' = IF aCmd = ACMD_PLAY THEN "running" ELSE "null"
    /\ aRunning' = (aCmd = ACMD_PLAY)
    /\ audioSrc' = IF aCmd = ACMD_PLAY THEN aTarget ELSE NoStation
    /\ nLive' = IF aCmd = ACMD_PLAY THEN 1 ELSE 0
    /\ UNCHANGED <<aTarget, aPaused, playingIdx, stationCount, ctlVars>>
    /\ UNCHANGED <<a_pc, cmd, idx, i, reg>>
    /\ UNCHANGED <<hLastKind, hLastIdx, hOver, hFailIdx, hQuiet, hConnFail, hRetries>>
    /\ UNCHANGED <<gainF2P6, _binAcc, _binIdx, _binCnt, _peakAcc, _peakCnt, _waveSub>>
    /\ UNCHANGED <<visPeak, visBins, visWave, visWaveW, ret, inA, inB, sinkHist, dirVars, keyVars, netVars, navVars>>

\* lines 1314 / 1350:  aPaused = !aPaused;
S_Pause ==
    /\ hN \in PauseAt
    /\ pauseToggle
    /\ UNCHANGED <<ctlVars, audioVars, histVars, extVars>>

\* the declared C types of the sink's state
SinkTypeOK ==
    /\ _bp \in 0 .. (BUF_SZ - 2) /\ _bp % 2 = 0
    /\ Len(_buf) = _bp /\ \A k \in 1 .. Len(_buf) : _buf[k] \in -32768 .. 32767
    /\ _binIdx \in 0 .. (VIS_BINS - 1) /\ _binCnt \in 0 .. (BIN_WINDOW - 1)
    /\ _peakCnt \in 0 .. (PEAK_WINDOW - 1) /\ _waveSub \in 0 .. (WAVE_DECIM - 1)
    /\ visPeak \in 0 .. 32767
    /\ \A k \in 0 .. (VIS_BINS - 1) : visBins[k] \in 0 .. 255
    /\ \A k \in 0 .. (VIS_WAVE_N - 1) : visWave[k] \in -128 .. 127
    /\ visWaveW \in 0 .. (VIS_WAVE_N - 1)
    /\ gainF2P6 \in 0 .. 255
    /\ _peakAcc \in 0 .. (PEAK_WINDOW * 65535)
    /\ \A k \in 0 .. (VIS_BINS - 1) : _binAcc[k] \in 0 .. (BIN_WINDOW * 65535)

SinkNext == S_Sample \/ S_Command \/ S_Handle \/ S_Pause

SinkSpec == SinkSpecInit /\ [][SinkNext]_vars


(***************************************************************************)
(* The station directory: parseChannelsJson / fetchChannels fill           *)
(* stations[] from the cache file or the network, loadFavorites marks the  *)
(* favorites, sortStations moves them to the front and restoreLastStation  *)
(* selects the station played last.  Stations are told apart by their id.  *)
(***************************************************************************)
\* The directories the cache file or the server may list: up to
\* MAX_STATIONS stations (here NumStations), no id twice, possibly none.
Directories ==
    {d \in UNION {[1 .. n -> Ids] : n \in 0 .. NumStations} :
        \A a, b \in DOMAIN d : a # b => d[a] # d[b]}

\* lines 450-463 / 555-568: the loop that fills stations[0 .. n-1]; entries
\* beyond the new count keep what they held.
ParseChannels(st, d) ==
    [k \in Indices |-> IF k < Len(d) THEN [id |-> d[k + 1], fav |-> FALSE] ELSE st[k]]

\* loadFavorites, lines 578-585
loadFavorites(st, n) ==
    [k \in Indices |-> IF k < n THEN [st[k] EXCEPT !.fav = (st[k].id \in prefsFavs)] ELSE st[k]]

\* std::stable_sort of lines 636-637: favorites first, order kept within
\* the two groups.  The result lists the old index of each new position.
SortOrder(st, n) ==
    LET old == [k \in 1 .. n |-> k - 1]
        IsFav(k) == st[k].fav
        NotFav(k) == ~st[k].fav
    IN  SelectSeq(old, IsFav) \o SelectSeq(old, NotFav)

\* lines 640-643: the index follows the station with the remembered id; an
\* empty id (index out of range before the sort) leaves the index alone.
FollowId(st, n, x, id) ==
    LET hits == {k \in 0 .. (n - 1) : st[k].id = id}
    IN  IF id # 0 /\ hits # {} THEN CHOOSE k \in hits : \A j \in hits : j <= k ELSE x

\* sortStations, lines 628-645, on the directory st of n stations with the
\* indices sel (selectedIdx) and play (playingIdx)
sortStations(st, n, sel, play) ==
    LET selId  == IF sel >= 0 /\ sel < n THEN st[sel].id ELSE 0
        playId == IF play >= 0 /\ play < n THEN st[play].id ELSE 0
        o      == SortOrder(st, n)
        st2    == [k \in Indices |-> IF k < n THEN st[o[k + 1]] ELSE st[k]]
    IN  [st |-> st2, sel |-> FollowId(st2, n, sel, selId), play |-> FollowId(st2, n, play, playId)]

\* ensureVisible, lines 608-611, for a directory of n stations and the selection sel
ensureVisible(n, sel) ==
    LET maxOff == Max(0, n - VISIBLE_LINES)
    IN  Max(0, Min(sel - VISIBLE_LINES \div 2, maxOff))

\* restoreLastStation, lines 613-626
restoreLastStation(st, n, sel) ==
    LET hits == {k \in 0 .. (n - 1) : st[k].id = prefsLast}
    IN  IF prefsLast # 0 /\ hits # {} THEN CHOOSE k \in hits : \A j \in hits : k <= j ELSE sel

\* A directory d has been parsed:  loadFavorites(); sortStations();
\* restoreLastStation();   (lines 1448-1450, 1467-1469, 1478-1480)
InstallDirectory(d) ==
    LET n  == Len(d)
        r  == sortStations(loadFavorites(ParseChannels(stations, d), n), n,
                           selectedIdx, playingIdx)
    IN  /\ stationCount' = n
        /\ stations' = r.st
        /\ selectedIdx' = restoreLastStation(r.st, n, r.sel)
        /\ scrollOffset' = ensureVisible(n, restoreLastStation(r.st, n, r.sel))
        /\ playingIdx' = r.play

\* loadCachedChannels() returns true: the file exists, parses and lists a station
CacheLoads == cache.valid /\ Len(cache.dir) > 0

\* loadCachedChannels() returned false: a file that parses but lists no
\* station has set stationCount = 0 (line 450) on the way.
CacheMissed == stationCount' = IF cache.valid THEN 0 ELSE stationCount

\* lines 1446-1455: boot from the cache
D_BootCached_viaWifi ==
    /\ c_pc = "idle" /\ appState = "BOOT"
    /\ CacheLoads
    /\ InstallDirectory(cache.dir)
    /\ appState' = "BROWSER"
    /\ needsRefresh' = TRUE
    /\ hBoot' = "cache" /\ hBootNet' = {"wifi"}
    /\ UNCHANGED <<aCmd, aTarget, aRunning, aPaused, c_pc, c_blk, c_arg>>
    /\ UNCHANGED <<audioVars, histVars, sinkVars, sinkHist, keyVars, netVars, cache, prefsFavs, prefsLast>>

D_BootCached ==
    /\ c_pc = "idle" /\ appState = "BOOT"
    /\ CacheLoads
    /\ InstallDirectory(cache.dir)
    /\ appState' = "BROWSER"
    /\ needsRefresh' = TRUE
    /\ hBoot' = "cache" /\ hBootNet' = {}
    /\ UNCHANGED <<aCmd, aTarget, aRunning, aPaused, c_pc, c_blk, c_arg>>
    /\ UNCHANGED <<audioVars, histVars, sinkVars, sinkHist, keyVars, netVars, cache, prefsFavs, prefsLast>>

\* lines 1457-1462: no cache and connectWiFi() fails
D_BootWifiFail_anyCache ==
    /\ c_pc = "idle" /\ appState = "BOOT"
    /\ CacheMissed
    /\ appState' = "ERROR"
    /\ hBoot' = "wifiFail" /\ hBootNet' = {"wifi"}
    /\ UNCHANGED <<aCmd, aTarget, aRunning, aPaused, playingIdx, selectedIdx, c_pc, c_blk, c_arg>>
    /\ UNCHANGED <<audioVars, histVars, sinkVars, sinkHist, keyVars, netVars, navVars>>
    /\ UNCHANGED <<stations, needsRefresh, cache, prefsFavs, prefsLast>>

D_BootWifiFail ==
    /\ c_pc = "idle" /\ appState = "BOOT"
    /\ ~CacheLoads
    /\ CacheMissed
    /\ appState' = "ERROR"
    /\ hBoot' = "wifiFail" /\ hBootNet' = {"wifi"}
    /\ UNCHANGED <<aCmd, aTarget, aRunning, aPaused, playingIdx, selectedIdx, c_pc, c_blk, c_arg>>
    /\ UNCHANGED <<audioVars, histVars, sinkVars, sinkHist, keyVars, netVars, navVars>>
    /\ UNCHANGED <<stations, needsRefresh, cache, prefsFavs, prefsLast>>

\* fetchChannels() returns false, lines 478-571: no HTTP 200 from either URL
\* (nothing written), or a body that is no JSON (written to the cache file,
\* line 514-518, before the parse fails), or JSON that lists no station
\* (written to the cache, stationCount = 0).
FetchFails ==
    \/ /\ UNCHANGED <<cache, stationCount>>
    \/ /\ cache' = [valid |-> FALSE, dir |-> <<>>]
       /\ UNCHANGED stationCount
    \/ /\ cache' = [valid |-> TRUE, dir |-> <<>>]
       /\ stationCount' = 0

\* lines 1463-1467: no cache, WiFi connected, fetchChannels() fails
D_BootFetchFail ==
    /\ c_pc = "idle" /\ appState = "BOOT"
    /\ ~CacheLoads
    /\ \/ /\ UNCHANGED cache /\ CacheMissed
       \/ /\ cache' = [valid |-> FALSE, dir |-> <<>>] /\ CacheMissed
       \/ /\ cache' = [valid |-> TRUE, dir |-> <<>>] /\ stationCount' = 0
    /\ appState' = "ERROR"
    /\ hBoot' = "fetchFail" /\ hBootNet' = {"wifi", "fetch"}
    /\ UNCHANGED <<aCmd, aTarget, aRunning, aPaused, playingIdx, selectedIdx, c_pc, c_blk, c_arg>>
    /\ UNCHANGED <<audioVars, histVars, sinkVars, sinkHist, keyVars, netVars, navVars>>
    /\ UNCHANGED <<stations, needsRefresh, prefsFavs, prefsLast>>

\* lines 1457-1471: no cache, WiFi connected, the directory is fetched
D_BootNet ==
    /\ c_pc = "idle" /\ appState = "BOOT"
    /\ ~CacheLoads
    /\ \E d \in Directories :
         /\ Len(d) > 0
         /\ cache' = [valid |-> TRUE, dir |-> d]
         /\ InstallDirectory(d)
    /\ appState' = "BROWSER"
    /\ hBoot' = "net" /\ hBootNet' = {"wifi", "fetch"}
    /\ UNCHANGED <<aCmd, aTarget, aRunning, aPaused, c_pc, c_blk, c_arg>>
    /\ UNCHANGED <<audioVars, histVars, sinkVars, sinkHist, keyVars, netVars, needsRefresh, prefsFavs, prefsLast>>

\* lines 1475-1484: the deferred refresh, at the head of a pass once the
\* WiFi is connected
D_Refresh ==
    /\ c_pc = "idle" /\ needsRefresh
    /\ needsRefresh' = FALSE
    /\ \/ /\ FetchFails
          /\ UNCHANGED <<stations, selectedIdx, playingIdx, scrollOffset>>
       \/ \E d \in Directories :
            /\ Len(d) > 0
            /\ cache' = [valid |-> TRUE, dir |-> d]
            /\ InstallDirectory(d)
    /\ UNCHANGED <<aCmd, aTarget, aRunning, aPaused, appState, c_pc, c_blk, c_arg>>
    /\ UNCHANGED <<audioVars, histVars, sinkVars, sinkHist, keyVars, netVars, prefsFavs, prefsLast, hBoot, hBootNet>>

\* toggleFavorite(x), lines 647-652, with saveFavorites (lines 587-598)
toggleFavorite(x) ==
    IF x < 0 \/ x >= stationCount
      THEN UNCHANGED <<stations, prefsFavs, selectedIdx, playingIdx, scrollOffset>>
      ELSE LET st1 == [stations EXCEPT ![x].fav = ~stations[x].fav]
               r   == sortStations(st1, stationCount, selectedIdx, playingIdx)
           IN  /\ prefsFavs' = {st1[k].id : k \in {j \in 0 .. (stationCount - 1) : st1[j].fav}}
               /\ stations' = r.st
               /\ selectedIdx' = r.sel
               /\ scrollOffset' = ensureVisible(stationCount, r.sel)
               /\ playingIdx' = r.play

\* line 1322:  if (hasKey('f')) { toggleFavorite(selectedIdx); }
C_BrowserFav ==
    /\ AtKey("B_fav")
    /\ c_blk' = "B_fav"
    /\ toggleFavorite(selectedIdx)
    /\ UNCHANGED <<aCmd, aTarget, aRunning, aPaused, stationCount, appState, c_pc, c_arg>>
    /\ UNCHANGED <<audioVars, histVars, sinkVars, sinkHist, keyVars, netVars>>
    /\ UNCHANGED <<needsRefresh, cache, prefsLast, hBoot, hBootNet>>

\* line 1349:  if (hasKey('f')) { toggleFavorite(playingIdx); }
C_PlayerFav ==
    /\ AtKey("P_fav")
    /\ c_blk' = "P_fav"
    /\ toggleFavorite(playingIdx)
    /\ UNCHANGED <<aCmd, aTarget, aRunning, aPaused, stationCount, appState, c_pc, c_arg>>
    /\ UNCHANGED <<audioVars, histVars, sinkVars, sinkHist, keyVars, netVars>>
    /\ UNCHANGED <<needsRefresh, cache, prefsLast, hBoot, hBootNet>>

\* One iteration of the for(;;) of audioTask, lines 1178-1226, taken as a
\* whole: a pending command is taken and handled (teardown, and for a Play
\* with a target in range the connection attempt, which succeeds or fails),
\* or the running stream breaks and the retry wait elapses.
D_AudioIter ==
    /\ a_pc = "top" /\ c_pc # "crash"
    /\ \/ /\ aCmd # ACMD_NONE
          /\ aCmd' = ACMD_NONE /\ hCmdBy' = "none"
          /\ IF aCmd = ACMD_PLAY /\ InRange(aTarget)
               THEN \/ /\ audioSrc' = aTarget /\ mp3' = "running" /\ nLive' = 1
                       /\ aRunning' = TRUE
                       /\ playingIdx' = aTarget
                    \/ /\ audioSrc' = NoStation /\ mp3' = "null" /\ nLive' = 0
                       /\ aRunning' = FALSE
                       /\ UNCHANGED playingIdx
               ELSE /\ audioSrc' = NoStation /\ mp3' = "null" /\ nLive' = 0
                    /\ aRunning' = FALSE
                    /\ UNCHANGED playingIdx
          /\ UNCHANGED aTarget
       \/ /\ aCmd = ACMD_NONE /\ mp3 = "running"
          /\ audioSrc' = NoStation /\ mp3' = "null" /\ nLive' = 0
          /\ aRunning' = FALSE
          /\ aTarget' = playingIdx
          /\ aCmd' = ACMD_PLAY /\ hCmdBy' = "audio"
          /\ UNCHANGED playingIdx
    /\ UNCHANGED <<aPaused, stationCount, ctlVars, a_pc, cmd, idx, i, reg>>
    /\ UNCHANGED <<hLastKind, hLastIdx, hOver, hFailIdx, hQuiet, hConnFail, hRetries>>
    /\ UNCHANGED extVars

(***************************************************************************)
(* DirSpec: the application state machine over a directory that changes:   *)
(* the boot sequence in full, the deferred refresh, the favorites, and the *)
(* key blocks of Spec.  When the device is switched on the flash holds any *)
(* cache file or none, and the preferences are empty: favorites and the    *)
(* last station come from what the user does in the run.  The audio task   *)
(* takes one whole iteration per step.                                     *)
(***************************************************************************)
DirSpecInit ==
    /\ ProtoInit
    /\ stations = [k \in Indices |-> [id |-> 0, fav |-> FALSE]]
    /\ needsRefresh = FALSE
    /\ cache \in {[valid |-> FALSE, dir |-> <<>>]} \cup {[valid |-> TRUE, dir |-> d] : d \in Directories}
    /\ prefsFavs = {} /\ prefsLast = 0
    /\ hBoot = "none" /\ hBootNet = {}

DirKeys ==
    \/ ControlRun
    \/ C_ErrorKeys \/ C_Pass \/ C_BtnA
    \/ C_Up \/ C_Down \/ C_Enter \/ C_BrowserSpace \/ C_BrowserFav
    \/ C_Del \/ C_X \/ C_PlayerFav \/ C_PlayerToggle \/ C_Next \/ C_Prev

DirNext ==
    \/ D_BootCached \/ D_BootWifiFail \/ D_BootFetchFail \/ D_BootNet
    \/ D_Refresh
    \/ DirKeys
    \/ D_AudioIter

DirSpec == DirSpecInit /\ [][DirNext]_vars

(***************************************************************************)
(* Volume keys: ',' and '/' in both handlers (lines 1325-1326, 1352-1353)  *)
(* call setVolume (lines 1247-1250) and saveSettings (lines 1252-1257).    *)
(***************************************************************************)
\* conversion of the int argument to the uint8_t parameter of setVolume
ToUint8(x) == x % 256

\* setVolume((volume > 15) ? volume - 15 : 0)
VolDown(v) == ToUint8(IF v > 15 THEN v - 15 ELSE 0)

VolUp_wrap(v) == ToUint8(v + 15)

\* setVolume((volume < 240) ? volume + 15 : 255)
VolUp(v) == ToUint8(IF v < 240 THEN v + 15 ELSE 255)

\* setVolume(v); saveSettings();
setVolume(v) ==
    /\ volume' = v
    /\ gainF2P6' = GainOf(v)
    /\ prefsVol' = v

VolKeyFrame ==
    /\ UNCHANGED <<sharedVars, appState, selectedIdx, c_pc, c_arg, audioVars, histVars>>
    /\ UNCHANGED <<_buf, _bp, _binAcc, _binIdx, _binCnt, _peakAcc, _peakCnt, _waveSub>>
    /\ UNCHANGED <<visPeak, visBins, visWave, visWaveW, ret, inA, inB>>
    /\ UNCHANGED <<sinkHist, dirVars, netVars, navVars, now, tLastKey, kbEnter, kbOther, kbChange, hAccAt>>

\* lines 1325 / 1352:  ','
C_VolDown ==
    /\ \/ AtKey("B_voldn") /\ c_blk' = "B_voldn"
       \/ AtKey("P_voldn") /\ c_blk' = "P_voldn"
    /\ setVolume(VolDown(volume))
    /\ VolKeyFrame

\* lines 1326 / 1353:  '/'
C_VolUp ==
    /\ \/ AtKey("B_volup") /\ c_blk' = "B_volup"
       \/ AtKey("P_volup") /\ c_blk' = "P_volup"
    /\ setVolume(VolUp(volume))
    /\ VolKeyFrame

(***************************************************************************)
(* VolSpec: the volume keys of the Browser and of the Player, from every   *)
(* volume that loadSettings (lines 1259-1265) may have read from the NVS.  *)
(***************************************************************************)
VolSpecInit ==
    /\ aCmd = ACMD_NONE /\ aPaused = FALSE /\ stationCount = 1 /\ selectedIdx = 0
    /\ \/ /\ appState = "BROWSER" /\ playingIdx = NoStation /\ aTarget = NoStation
          /\ aRunning = FALSE /\ audioSrc = NoStation /\ mp3 = "null" /\ nLive = 0
          /\ hLastKind = "none" /\ hLastIdx = NoStation /\ prefsLast = 0
       \/ /\ appState = "PLAYING" /\ playingIdx = 0 /\ aTarget = 0
          /\ aRunning = TRUE /\ audioSrc = 0 /\ mp3 = "running" /\ nLive = 1
          /\ hLastKind = "play" /\ hLastIdx = 0 /\ prefsLast = 1
    /\ c_pc = "idle" /\ c_blk = "none" /\ c_arg = NoStation
    /\ a_pc = "top" /\ cmd = ACMD_NONE /\ idx = NoStation /\ i = 0 /\ reg = NoStation
    /\ hCmdBy = "none" /\ hOver = FALSE
    /\ hFailIdx = NoStation /\ hQuiet = FALSE /\ hConnFail = FALSE /\ hRetries = 0
    /\ SinkInit /\ inA = <<0, 0>> /\ inB = <<0, 0>>
    /\ stations = [k \in Indices |-> [id |-> IF k = 0 THEN 1 ELSE 0, fav |-> FALSE]]
    /\ needsRefresh = FALSE /\ cache = [valid |-> FALSE, dir |-> <<>>]
    /\ prefsFavs = {} /\ hBoot = "none" /\ hBootNet = {}
    /\ volume \in 0 .. MAX_VOLUME /\ prefsVol = volume
    /\ gainF2P6 = GainOf(volume)
    /\ KeyInit /\ NetInit /\ NavInit

VolNext == C_Pass \/ C_VolDown \/ C_VolUp \/ C_EndPass

VolSpec == VolSpecInit /\ [][VolNext]_vars

(***************************************************************************)
(* Input: the edge and debounce tests at the head of the three key         *)
(* handlers.  M5Cardputer.update() (line 1442) samples the keyboard;       *)
(* isChange() tells whether the held keys changed since it was last asked, *)
(* isPressed() whether a key is down.  The user presses and releases the   *)
(* Enter key and one other key; the clock advances between two passes of   *)
(* loop().                                                                 *)
(***************************************************************************)
\* milliseconds between two passes of loop() in which something happens
TickMs == 60

\* length of a run in milliseconds
MaxTime == 600

K_Tick ==
    /\ c_pc = "idle" /\ now + TickMs <= MaxTime
    /\ now' = now + TickMs
    /\ UNCHANGED <<sharedVars, ctlVars, audioVars, histVars, sinkVars, sinkHist, dirVars, netVars, navVars>>
    /\ UNCHANGED <<volume, prefsVol, tLastKey, kbEnter, kbOther, kbChange, hAccAt>>

\* the user presses or releases a key
K_Key ==
    /\ c_pc = "idle"
    /\ \/ kbEnter' = ~kbEnter /\ UNCHANGED kbOther
       \/ kbOther' = ~kbOther /\ UNCHANGED kbEnter
    /\ kbChange' = TRUE
    /\ UNCHANGED <<sharedVars, ctlVars, audioVars, histVars, sinkVars, sinkHist, dirVars, netVars, navVars>>
    /\ UNCHANGED <<volume, prefsVol, now, tLastKey, hAccAt>>

\* lines 1276 / 1335 / 1373:  !isChange() || !isPressed()
KeyEdge == kbChange /\ (kbEnter \/ kbOther)

\* lines 1277 / 1336:  millis() - tLastKey < DEBOUNCE_MS
Debounced == now - tLastKey >= DEBOUNCE_MS

\* lines 1275-1280 / 1335-1339: a pass of loop() enters handleBrowserKeys or
\* handlePlayerKeys; the handler returns at once or goes on to its key blocks
K_Pass ==
    /\ c_pc = "idle" /\ appState \in {"BROWSER", "PLAYING"}
    /\ kbChange' = FALSE
    /\ IF KeyEdge /\ Debounced
         THEN /\ tLastKey' = now
              /\ hAccAt' = now
              /\ c_pc' = "keys"
              /\ c_blk' = IF appState = "BROWSER" THEN "B_start" ELSE "P_start"
              /\ hQuiet' = FALSE
         ELSE UNCHANGED <<tLastKey, hAccAt, c_pc, c_blk, hQuiet>>
    /\ UNCHANGED <<sharedVars, appState, selectedIdx, c_arg, audioVars>>
    /\ UNCHANGED <<hCmdBy, hLastKind, hLastIdx, hOver, hFailIdx, hConnFail, hRetries>>
    /\ UNCHANGED <<sinkVars, sinkHist, dirVars, netVars, navVars, volume, prefsVol, now, kbEnter, kbOther>>

\* lines 1331-1334:  if (M5.BtnA.wasPressed()) { appState = STATE_BROWSER; return; }
K_BtnA ==
    /\ c_pc = "idle" /\ appState = "PLAYING"
    /\ appState' = "BROWSER"
    /\ hAccAt' = now
    /\ UNCHANGED <<sharedVars, selectedIdx, c_pc, c_blk, c_arg, audioVars, histVars>>
    /\ UNCHANGED <<sinkVars, sinkHist, dirVars, netVars, navVars>>
    /\ UNCHANGED <<volume, prefsVol, now, tLastKey, kbEnter, kbOther, kbChange>>

K_ErrorKeys_anyKey ==
    /\ c_pc = "idle" /\ appState = "ERROR"
    /\ kbChange' = FALSE
    /\ IF KeyEdge
         THEN appState' = "BOOT" /\ hAccAt' = now
         ELSE UNCHANGED <<appState, hAccAt>>
    /\ UNCHANGED <<sharedVars, selectedIdx, c_pc, c_blk, c_arg, audioVars, histVars>>
    /\ UNCHANGED <<sinkVars, sinkHist, dirVars, netVars, navVars>>
    /\ UNCHANGED <<volume, prefsVol, now, tLastKey, kbEnter, kbOther>>

\* handleErrorKeys, lines 1372-1376
K_ErrorKeys ==
    /\ c_pc = "idle" /\ appState = "ERROR"
    /\ kbChange' = FALSE
    /\ IF KeyEdge /\ kbEnter
         THEN appState' = "BOOT" /\ hAccAt' = now
         ELSE UNCHANGED <<appState, hAccAt>>
    /\ UNCHANGED <<sharedVars, selectedIdx, c_pc, c_blk, c_arg, audioVars, histVars>>
    /\ UNCHANGED <<sinkVars, sinkHist, dirVars, netVars, navVars>>
    /\ UNCHANGED <<volume, prefsVol, now, tLastKey, kbEnter, kbOther>>

\* the key blocks of a pass that was let through, each for a key that is down
K_Blocks ==
    \/ kbOther /\ (C_Up \/ C_Down \/ C_Del)
    \/ kbEnter /\ C_Enter
    \/ C_PlayIdx \/ C_PlayTarget \/ C_PlayCmd
    \/ C_EndPass

(***************************************************************************)
(* KeySpec: boot, the error screen, the Browser and the Player under the   *)
(* keyboard, the G0 button and the clock.  The audio task is left out: a   *)
(* published command stays in the slot.                                    *)
(***************************************************************************)
KeyNext ==
    \/ C_Boot
    \/ K_Tick \/ K_Key
    \/ K_Pass \/ K_BtnA \/ K_ErrorKeys
    \/ K_Blocks

KeySpec == Init /\ [][KeyNext]_vars

(***************************************************************************)
(* BootSpec: the boot sequence on its own, with the error screen, the      *)
(* deferred refresh and the Browser's navigation and favorites; no station *)
(* is played.  The flash holds any cache file or none and any preferences. *)
(***************************************************************************)
BootSpecInit ==
    /\ ProtoInit
    /\ stations = [k \in Indices |-> [id |-> 0, fav |-> FALSE]]
    /\ needsRefresh = FALSE
    /\ cache \in {[valid |-> FALSE, dir |-> <<>>]} \cup {[valid |-> TRUE, dir |-> d] : d \in Directories}
    /\ prefsFavs \in SUBSET Ids
    /\ prefsLast \in {0} \cup Ids
    /\ hBoot = "none" /\ hBootNet = {}

BootNext ==
    \/ D_BootCached \/ D_BootWifiFail \/ D_BootFetchFail \/ D_BootNet
    \/ C_ErrorKeys
    \/ D_Refresh
    \/ C_Pass \/ C_EndPass \/ C_Up \/ C_Down \/ C_BrowserFav

BootSpec == BootSpecInit /\ [][BootNext]_vars

(***************************************************************************)
(* RefreshSpec: the deferred refresh of lines 1474-1484 with the WiFi      *)
(* link, which setup() starts and which comes up and drops on its own.     *)
(* The refresh takes two steps, the test that clears the flag and the      *)
(* fetch, and the audio task runs while the fetch is under way.  A pass    *)
(* reaches the key handlers only when the refresh block was not entered.   *)
(***************************************************************************)
\* WiFi.status() becomes WL_CONNECTED / leaves it
W_Up ==
    /\ ~wifiUp /\ wifiUp' = TRUE
    /\ UNCHANGED <<sharedVars, ctlVars, audioVars, histVars>>
    /\ UNCHANGED <<sinkVars, sinkHist, dirVars, keyVars, hRefreshes, navVars>>

W_Down ==
    /\ wifiUp /\ wifiUp' = FALSE
    /\ UNCHANGED <<sharedVars, ctlVars, audioVars, histVars>>
    /\ UNCHANGED <<sinkVars, sinkHist, dirVars, keyVars, hRefreshes, navVars>>

R_RefreshTest_anyLink ==
    /\ c_pc = "idle" /\ needsRefresh
    /\ needsRefresh' = FALSE
    /\ hRefreshes' = hRefreshes + 1
    /\ c_pc' = "fetch"
    /\ UNCHANGED <<sharedVars, appState, selectedIdx, c_blk, c_arg, audioVars, histVars>>
    /\ UNCHANGED <<sinkVars, sinkHist, keyVars, wifiUp, navVars>>
    /\ UNCHANGED <<stations, cache, prefsFavs, prefsLast, hBoot, hBootNet>>

\* lines 1475-1476:  if (needsRefresh && WiFi.status() == WL_CONNECTED) {
\*                       needsRefresh = false;
R_RefreshTest ==
    /\ c_pc = "idle" /\ needsRefresh /\ wifiUp
    /\ needsRefresh' = FALSE
    /\ hRefreshes' = hRefreshes + 1
    /\ c_pc' = "fetch"
    /\ UNCHANGED <<sharedVars, appState, selectedIdx, c_blk, c_arg, audioVars, histVars>>
    /\ UNCHANGED <<sinkVars, sinkHist, keyVars, wifiUp, navVars>>
    /\ UNCHANGED <<stations, cache, prefsFavs, prefsLast, hBoot, hBootNet>>

\* lines 1478-1483:  if (fetchChannels(false)) { loadFavorites();
\*                       sortStations(); restoreLastStation(); }
R_RefreshFetch ==
    /\ c_pc = "fetch"
    /\ c_pc' = "idle"
    /\ \/ /\ FetchFails
          /\ UNCHANGED <<stations, selectedIdx, playingIdx, scrollOffset>>
       \/ /\ wifiUp
          /\ \E d \in Directories :
               /\ Len(d) > 0
               /\ cache' = [valid |-> TRUE, dir |-> d]
               /\ InstallDirectory(d)
    /\ UNCHANGED <<aCmd, aTarget, aRunning, aPaused, appState, c_blk, c_arg>>
    /\ UNCHANGED <<audioVars, histVars, sinkVars, sinkHist, keyVars, netVars>>
    /\ UNCHANGED <<needsRefresh, prefsFavs, prefsLast, hBoot, hBootNet>>

\* connectWiFi (lines 400-426) returns whether the link is up
R_Boot ==
    \/ D_BootCached
    \/ ~wifiUp /\ D_BootWifiFail
    \/ wifiUp /\ D_BootFetchFail
    \/ wifiUp /\ D_BootNet

\* line 1475 was false in this pass: the input block of lines 1487-1492
R_Keys ==
    \/ ~(needsRefresh /\ wifiUp) /\ (C_ErrorKeys \/ C_Pass \/ C_BtnA)
    \/ C_Up \/ C_Down \/ C_Enter \/ C_Del
    \/ C_PlayIdx \/ C_PlayTarget \/ C_PlayCmd \/ C_EndPass

RefreshSpecInit ==
    /\ ProtoInit
    /\ stations = [k \in Indices |-> [id |-> 0, fav |-> FALSE]]
    /\ needsRefresh = FALSE
    /\ cache \in {[valid |-> FALSE, dir |-> <<>>]} \cup {[valid |-> TRUE, dir |-> d] : d \in Directories}
    /\ prefsFavs = {} /\ prefsLast = 0
    /\ hBoot = "none" /\ hBootNet = {}

RefreshNext ==
    \/ W_Up \/ W_Down
    \/ R_Boot
    \/ R_RefreshTest \/ R_RefreshFetch
    \/ R_Keys
    \/ D_AudioIter

RefreshSpec == RefreshSpecInit /\ [][RefreshNext]_vars

(***************************************************************************)
(* NavSpec: the navigation keys of the Browser over a directory longer     *)
(* than the list window.  The boot sequence has left the selection on the  *)
(* first station or on the station played last, and the window where       *)
(* ensureVisible puts it.                                                  *)
(***************************************************************************)
\* Largest directory of NavSpec.
NavStations == 14

\* lines 1295-1298:  'q'
C_PageUp ==
    /\ AtKey("B_pgup")
    /\ c_blk' = "B_pgup"
    /\ selectedIdx' = Max(0, selectedIdx - VISIBLE_LINES)
    /\ scrollOffset' = Max(0, scrollOffset - VISIBLE_LINES)
    /\ UNCHANGED <<sharedVars, appState, c_pc, c_arg, audioVars, histVars>>
    /\ UNCHANGED <<sinkVars, sinkHist, dirVars, keyVars, netVars>>

\* lines 1299-1304:  'e'
C_PageDown ==
    /\ AtKey("B_pgdn")
    /\ c_blk' = "B_pgdn"
    /\ LET sel == Min(stationCount - 1, selectedIdx + VISIBLE_LINES)
       IN  /\ selectedIdx' = sel
           /\ scrollOffset' = IF sel >= scrollOffset + VISIBLE_LINES
                                THEN Min(stationCount - VISIBLE_LINES, sel - VISIBLE_LINES + 1)
                                ELSE scrollOffset
    /\ UNCHANGED <<sharedVars, appState, c_pc, c_arg, audioVars, histVars>>
    /\ UNCHANGED <<sinkVars, sinkHist, dirVars, keyVars, netVars>>

NavSpecInit ==
    /\ aCmd = ACMD_NONE /\ aTarget = -1
    /\ aRunning = FALSE /\ aPaused = FALSE /\ playingIdx = -1
    /\ stationCount \in 1 .. NavStations
    /\ selectedIdx \in 0 .. (stationCount - 1)
    /\ scrollOffset = ensureVisible(stationCount, selectedIdx)
    /\ appState = "BROWSER"
    /\ c_pc = "idle" /\ c_blk = "none" /\ c_arg = NoStation
    /\ a_pc = "top" /\ cmd = ACMD_NONE /\ idx = NoStation /\ i = 0 /\ reg = NoStation
    /\ audioSrc = NoStation /\ mp3 = "null" /\ nLive = 0
    /\ hCmdBy = "none" /\ hLastKind = "none" /\ hLastIdx = NoStation /\ hOver = FALSE
    /\ hFailIdx = NoStation /\ hQuiet = FALSE /\ hConnFail = FALSE /\ hRetries = 0
    /\ SinkInit
    /\ gainF2P6 = GainOf(DEFAULT_VOLUME) /\ inA = <<0, 0>> /\ inB = <<0, 0>>
    /\ volume = DEFAULT_VOLUME /\ prefsVol = volume
    /\ KeyInit /\ NetInit
    /\ DirInit

NavNext == C_Pass \/ C_Up \/ C_Down \/ C_PageUp \/ C_PageDown \/ C_EndPass

NavSpec == NavSpecInit /\ [][NavNext]_vars


(***************************************************************************)
(*                              Properties                                 *)
(***************************************************************************)
\* The audio task is inside the retry that follows a mid-stream failure.
InRetry == a_pc \in {"failed", "poll", "retryCheck", "retryLoad", "retryTarget", "retryPublish"}

\* Nothing is in flight: the control context is between passes, the slot is
\* empty and the audio task is at the head of its loop or in the decoder.
Settled == c_pc = "idle" /\ aCmd = ACMD_NONE /\ a_pc \in {"top", "decode"}

\* C1: at most one playback session exists in every reachable state; a
\* session is constructed only by the audio task and only when none exists
\* (the previous one has been torn down), and no step of the control context
\* constructs or destroys a session.
C1_AtMostOneSession ==
    /\ [](nLive <= 1)
    /\ [][/\ (nLive' > nLive => (AudioTask /\ nLive = 0 /\ mp3 = "null"))
          /\ (Control => UNCHANGED <<audioSrc, mp3, nLive>>)]_vars

\* C1 witness: a session fails, is torn down, and the retry has constructed
\* the next one while the control context is in the middle of startPlaying.
C1_Witness == a_pc = "begin" /\ nLive = 1 /\ hRetries = 1 /\ c_pc = "sp4"

\* C2: once the control context has issued startPlaying(B) while a Play for
\* another station A was pending or being handled, and everything has
\* settled with no later command, playingIdx = B and the session, if any, is
\* connected to B.
C2_FinalStateIsB ==
    (Settled /\ hLastKind = "play" /\ hOver)
        => (playingIdx = hLastIdx /\ audioSrc \in {NoStation, hLastIdx})

\* C3: the audio task's clear of the slot (line 1181) erases only the command
\* it has read and is about to handle, never a different command written by
\* the control context after the read.
C3_ClearErasesOnlyReadCommand == [][A_Clear => aCmd = cmd]_vars

\* C4 (as claimed): no step of the audio task stores a command into aCmd or
\* changes aTarget; it only clears the slot.
C4_AudioNeverPublishes ==
    [][AudioTask => (aTarget' = aTarget /\ aCmd' \in {aCmd, ACMD_NONE})]_vars

\* C4 (amended): the audio task never stores ACMD_STOP; it changes aCmd only
\* by clearing it or, at the end of the retry that follows a mid-stream
\* failure, by storing ACMD_PLAY, and it changes aTarget only in that retry,
\* to the playingIdx it has just loaded.
C4_AudioPublishesOnlyRetry ==
    [][AudioTask =>
         /\ (aCmd' # aCmd => (aCmd' = ACMD_NONE \/ (aCmd' = ACMD_PLAY /\ InRetry)))
         /\ (aTarget' # aTarget => (InRetry /\ aTarget' = reg))]_vars

\* C4 witness: the slot holds a Play stored by the audio task.
C4_Witness == aCmd = ACMD_PLAY /\ hCmdBy = "audio" /\ InRange(aTarget)

\* C5: the auto-retry never publishes its Play over a command: when the
\* audio task stores ACMD_PLAY at line 1220 the slot is still empty.
C5_RetryNeverOverwrites == [][A_RetryPublish => aCmd = ACMD_NONE]_vars

\* C6: when the retry wait ends with no command written and the control
\* context idle since the failure, the Play that is re-issued targets the
\* station of the session whose stream failed.
C6_RetrySameStation ==
    [][(A_RetryPublish /\ hQuiet /\ aCmd = ACMD_NONE) => aTarget = hFailIdx]_vars

\* C7: once the control context has issued Stop and everything has settled
\* with no later command, no session exists and aRunning is false.
C7_StopSettles ==
    (Settled /\ hLastKind = "stop") => (mp3 = "null" /\ nLive = 0 /\ ~aRunning)

\* C8: from a failed begin() until the audio task picks up the next command,
\* no session exists, aRunning is false, the audio task only idles and the
\* slot never holds a command stored by the audio task.
C8_NoRetryAfterConnectFailure ==
    hConnFail => /\ mp3 = "null" /\ nLive = 0 /\ audioSrc = NoStation
                 /\ ~aRunning
                 /\ hCmdBy # "audio"
                 /\ a_pc \in {"top", "decode"}

\* C8 witness: begin() failed for a Play of the control context and the audio
\* task idles in its loop with an empty slot.
C8_Witness == hConnFail /\ a_pc = "decode" /\ aCmd = ACMD_NONE /\ hLastKind = "play"

\* C9 (as claimed): without new commands from the control context the audio
\* task retries only finitely often: if the auto-retry fires again and again,
\* the control context is active again and again.
C9_FinitelyManyRetries ==
    ([]<>(a_pc = "retryPublish")) => ([]<>(c_pc # "idle"))

\* C9 (amended): at most one auto-retry is published between two successful
\* connections (or commands of the control context): a disconnect is retried
\* once, and a retry whose begin() fails is not retried again.
C9_OneRetryPerDisconnect == hRetries <= 1

\* C9 witness: the retry's own connection attempt has failed and the audio
\* task idles without publishing again.
C9_Witness == hRetries = 1 /\ hConnFail /\ a_pc = "decode" /\ aCmd = ACMD_NONE

\* C10: a pause toggle flips aPaused and changes nothing else (slot, target,
\* session, aRunning, playingIdx); a running session ends only when the audio
\* task handles a command or the stream fails.
C10_PauseOnlyFlipsFlag ==
    [][/\ (C_BrowserToggle \/ C_PlayerToggle) =>
             /\ aPaused' = ~aPaused
             /\ UNCHANGED <<aCmd, aTarget, aRunning, playingIdx, audioSrc, mp3, nLive>>
       /\ (mp3 = "running" /\ mp3' # "running") =>
             ((a_pc = "cleanup" /\ cmd # ACMD_NONE) \/ a_pc = "failed")]_vars

\* C10 witness: playback is paused from the player while the session runs.
C10_Witness ==
    /\ aPaused /\ mp3 = "running" /\ aRunning /\ aCmd = ACMD_NONE
    /\ c_pc = "keys" /\ c_blk = "P_space"


\* C13 (as claimed): every step that takes the application from Playing to
\* Browser belongs to a handler pass that called stopPlaying(): the last
\* command the control context issued is Stop.
C13_BackIssuesStop ==
    [][(appState = "PLAYING" /\ appState' = "BROWSER") => hLastKind = "stop"]_vars

\* C13 (amended): Playing -> Browser is taken either by the stop key 'x',
\* after stopPlaying() has been called in the same pass, or by a back input
\* (Del key, button A), which issues no command and leaves the slot, the
\* session and aRunning as they are.
C13_OnlyStopKeyIssuesStop ==
    [][(appState = "PLAYING" /\ appState' = "BROWSER") =>
          \/ C_XDone /\ c_blk = "P_x" /\ hLastKind = "stop"
          \/ /\ C_Del \/ C_BtnA
             /\ hLastKind = "play"
             /\ UNCHANGED <<sharedVars, audioVars, histVars>>]_vars

\* C13 witness: back to the Browser by Del or button A while the session
\* keeps running and no Stop was issued.
C13_Witness ==
    /\ appState = "BROWSER" /\ hLastKind = "play" /\ c_blk \in {"P_del", "none"}
    /\ mp3 = "running" /\ aRunning /\ aCmd = ACMD_NONE /\ playingIdx >= 0


\* C17: after N accepted samples the active bin index is floor(N / 92) mod 16
\* (and the window in progress holds N mod 92 samples); the index changes
\* only when an accepted sample completes a window, and then by one,
\* circularly.
C17_BinIndexFollowsCount ==
    /\ [](_binIdx = (hN \div BIN_WINDOW) % VIS_BINS /\ _binCnt = hN % BIN_WINDOW)
    /\ [][_binIdx' # _binIdx =>
             /\ ConsumeSample /\ ret' = "true"
             /\ hN' = hN + 1 /\ hN' % BIN_WINDOW = 0
             /\ _binIdx' = (_binIdx + 1) % VIS_BINS]_vars

\* C17 witness: sixteen windows have been completed and the index is back at
\* bin 0.
C17_Witness == hN = BIN_WINDOW * VIS_BINS /\ _binIdx = 0 /\ _binCnt = 0 /\ ret = "true"


\* sum of the absolute values of a sequence of samples
RECURSIVE SumAbs(_)
SumAbs(w) == IF w = <<>> THEN 0
             ELSE (IF Head(w) < 0 THEN -Head(w) ELSE Head(w)) + SumAbs(Tail(w))

Clamp(x, lo, hi) == IF x < lo THEN lo ELSE IF x > hi THEN hi ELSE x

\* the bin that was active before the index advanced
PrevBin == (_binIdx + VIS_BINS - 1) % VIS_BINS

\* C18: when a window completes, the bin just emitted holds
\* clamp(windowMean >> 5, 0, 255), windowMean being the integer mean of the
\* absolute values of the 92 output samples of the window, and its
\* accumulator is zero again; while a window is in progress the accumulator
\* of the active bin is the sum of the absolute values of its samples so far.
C18_BinValueIsClampedMean ==
    /\ Len(hWin) = BIN_WINDOW =>
          /\ visBins[PrevBin] = Clamp((SumAbs(hWin) \div BIN_WINDOW) \div 32, 0, 255)
          /\ _binAcc[PrevBin] = 0
          /\ _binCnt = 0
    /\ Len(hWin) < BIN_WINDOW =>
          /\ _binCnt = Len(hWin)
          /\ _binAcc[_binIdx] = SumAbs(hWin)

\* C18 witness: a completed window that contains the output sample -32768
\* and whose bin value is not clamped.
C18_Witness ==
    /\ Len(hWin) = BIN_WINDOW
    /\ \E k \in 1 .. BIN_WINDOW : hWin[k] = -32768
    /\ visBins[PrevBin] \in 1 .. 254


\* C19 (as claimed): after M captures the waveform buffer holds min(M, L)
\* written entries, the cursor is in 0 .. L-1, and the most recent write is
\* at index (M mod L) - 1.
C19_LastWriteAtMmodLminus1 ==
    /\ Cardinality(hWaveSet) = Min(hM, VIS_WAVE_N)
    /\ visWaveW \in 0 .. (VIS_WAVE_N - 1)
    /\ hM > 0 => hLastWave = (hM % VIS_WAVE_N) - 1

\* C19 (amended): one capture per 11 accepted samples; after M captures the
\* entries 0 .. min(M, L)-1 have been written, the cursor is M mod L, in
\* 0 .. L-1, and the most recent write is at index (M - 1) mod L, the entry
\* just before the cursor, circularly.
C19_LastWriteBeforeCursor ==
    /\ hM = hN \div WAVE_DECIM /\ _waveSub = hN % WAVE_DECIM
    /\ hWaveSet = 0 .. (Min(hM, VIS_WAVE_N) - 1)
    /\ Cardinality(hWaveSet) = Min(hM, VIS_WAVE_N)
    /\ visWaveW \in 0 .. (VIS_WAVE_N - 1)
    /\ visWaveW = hM % VIS_WAVE_N
    /\ hM > 0 => /\ hLastWave = (hM - 1) % VIS_WAVE_N
                 /\ hLastWave = (visWaveW + VIS_WAVE_N - 1) % VIS_WAVE_N

\* C19 witness: the buffer has just been filled for the first time: the last
\* write went to index L-1 and the cursor wrapped to 0.
C19_Witness == hM = VIS_WAVE_N /\ visWaveW = 0 /\ hLastWave = VIS_WAVE_N - 1


\* C20: a call of ConsumeSample returns false exactly when a command is in
\* the slot at entry (paused or not) and true otherwise; a refused call
\* changes neither the block buffer, nor its cursor, nor any telemetry
\* state, and an accepted call buffers exactly one stereo pair.
C20_RefusesExactlyWhenCommandPending ==
    [][ConsumeSample =>
          /\ ret' = IF aCmd = ACMD_NONE THEN "true" ELSE "false"
          /\ aCmd # ACMD_NONE =>
                /\ UNCHANGED <<_buf, _bp, _binAcc, _binIdx, _binCnt, _peakAcc, _peakCnt>>
                /\ UNCHANGED <<_waveSub, visPeak, visBins, visWave, visWaveW, sinkHist>>
          /\ aCmd = ACMD_NONE =>
                /\ hN' = hN + 1
                /\ _bp' = (_bp + 2) % BUF_SZ
                /\ \/ _bp + 2 < BUF_SZ /\ _buf' = _buf \o <<MonoOf(Frame), MonoOf(Frame)>>
                   \/ _bp + 2 = BUF_SZ /\ _buf' = <<>>]_vars

\* C20 witness: a sample was refused with a Play pending while the block
\* buffer was partly filled.
C20_Witness == ret = "false" /\ aCmd = ACMD_PLAY /\ _bp > 0 /\ hN > 0 /\ mp3 = "running"


\* C15: when the cache file loads, the pass through the boot block takes the
\* application from Boot to Browser in one step, with the cached directory
\* installed, needsRefresh set, and neither connectWiFi() nor
\* fetchChannels() called.
C15_CachedBootGoesToBrowser ==
    [][(appState = "BOOT" /\ CacheLoads) =>
          /\ appState' = "BROWSER"
          /\ needsRefresh' = TRUE
          /\ hBoot' = "cache" /\ hBootNet' = {}
          /\ stationCount' = Len(cache.dir)
          /\ cache' = cache]_vars

\* C15 witness: the Browser shows a directory booted from the cache, the
\* refresh still pending and no network operation made.
C15_Witness ==
    /\ appState = "BROWSER" /\ hBoot = "cache" /\ hBootNet = {}
    /\ needsRefresh /\ stationCount > 0 /\ stationCount = Len(cache.dir)

\* C16: Boot leads to Error only when the cache file did not load and then
\* connectWiFi() or fetchChannels() failed; when the cache file loads, Boot
\* does not lead to Error.
C16_ErrorOnlyWithoutCache ==
    [][/\ (appState = "BOOT" /\ appState' = "ERROR") =>
             /\ ~CacheLoads
             /\ \/ hBoot' = "wifiFail" /\ hBootNet' = {"wifi"}
                \/ hBoot' = "fetchFail" /\ hBootNet' = {"wifi", "fetch"}
       /\ (appState = "BOOT" /\ CacheLoads) => appState' # "ERROR"
       /\ appState' = "ERROR" => appState \in {"BOOT", "ERROR"}]_vars

\* C16 witness: the error screen after a boot without cache whose directory
\* fetch failed although the WiFi connected.
C16_Witness ==
    /\ appState = "ERROR" /\ hBoot = "fetchFail" /\ hBootNet = {"wifi", "fetch"}
    /\ stationCount = 0


\* C11: a call of startPlaying with an index outside 0 .. stationCount - 1
\* does nothing: no step of the call changes the command slot or
\* playingIdx, selectedIdx, aPaused or aRunning.
C11_OutOfRangePlayIsNoOp ==
    [][(c_pc \in {"sp1", "sp2", "sp3", "sp4"} /\ c_pc' # c_pc /\ ~InRange(c_arg)) =>
          UNCHANGED <<aCmd, aTarget, playingIdx, selectedIdx, aPaused, aRunning>>]_vars

\* C12: in every reachable state playingIdx is -1 or an index of the
\* directory, 0 <= playingIdx < stationCount.
C12_PlayingIdxInDirectory == playingIdx = NoStation \/ InRange(playingIdx)

\* C14: a skip in the Player requests Play for the circularly adjacent
\* index, (playingIdx + 1) mod stationCount or (playingIdx - 1 +
\* stationCount) mod stationCount, and that index is in the directory.
C14_SkipTargetIsAdjacentIndex ==
    [][(AtKey("P_next") /\ c_blk' = "P_next") \/ (AtKey("P_prev") /\ c_blk' = "P_prev") =>
          /\ stationCount > 0
          /\ c_pc' = "sp1" /\ InRange(c_arg')
          /\ c_arg' = (playingIdx + (IF c_blk' = "P_next" THEN 1 ELSE stationCount - 1)) % stationCount]_vars


\* C21: when a call of startPlaying with an index of the directory returns,
\* playingIdx is that index, aRunning is true and the Play command for it
\* is in the command slot.
C21_PlayReturnsRunning ==
    [][(c_pc = "sp4" /\ c_pc' = "keys" /\ InRange(c_arg)) =>
          /\ aCmd' = ACMD_PLAY /\ aTarget' = c_arg
          /\ playingIdx' = c_arg
          /\ aRunning' = TRUE]_vars

\* C22: when a call of stopPlaying returns, the Stop command is in the
\* command slot and aRunning is false.
C22_StopReturnsNotRunning ==
    [][(c_pc = "st2" /\ c_pc' = "x3") =>
          /\ aCmd' = ACMD_STOP
          /\ aRunning' = FALSE]_vars

\* C23: if the control context has issued Play(b) for a station of the
\* directory and issues nothing afterwards (it stays idle), and begin()
\* never fails, then eventually a session connected to b runs with
\* aRunning = true and playingIdx = b.
C23_PlayEventuallyStreams ==
    \A b \in Indices :
        ([](a_pc # "beginFailed")
            /\ <>[](c_pc = "idle" /\ hLastKind = "play" /\ hLastIdx = b /\ InRange(b)))
            => <>(aRunning /\ mp3 = "running" /\ audioSrc = b /\ playingIdx = b)

\* C25: during the retry wait (the loop of lines 1215-1216) no session
\* exists and aRunning is false; a poll delay is started only with an empty
\* slot and fewer than 20 delays done; and once the slot holds a command the
\* audio task takes no further delay: it leaves the loop, skips the retry
\* and reads that command at the head of its loop.
C25_RetryWaitIsInterruptible ==
    /\ [](a_pc = "poll" =>
            /\ mp3 = "null" /\ nLive = 0 /\ audioSrc = NoStation /\ ~aRunning
            /\ i <= RETRY_POLLS)
    /\ [][(a_pc = "poll" /\ a_pc' = "poll" /\ i' # i) =>
            (aCmd = ACMD_NONE /\ i < RETRY_POLLS /\ i' = i + 1)]_vars
    /\ [][(a_pc = "poll" /\ aCmd # ACMD_NONE /\ a_pc' # a_pc) =>
            (a_pc' = "retryCheck" /\ aCmd' = aCmd)]_vars
    /\ [][(a_pc = "retryCheck" /\ aCmd # ACMD_NONE /\ a_pc' # a_pc) =>
            (a_pc' = "top" /\ aCmd' = aCmd /\ aTarget' = aTarget)]_vars
    /\ [][(a_pc = "top" /\ aCmd # ACMD_NONE /\ a_pc' # a_pc) =>
            (a_pc' = "clear" /\ cmd' = aCmd)]_vars

\* C25 witness: the wait was cut short by a Stop of the control context,
\* seen by the loop condition after some delays; no session exists.
C25_Witness ==
    /\ a_pc = "retryCheck" /\ aCmd = ACMD_STOP /\ hCmdBy = "ctl"
    /\ hFailIdx # NoStation /\ mp3 = "null" /\ ~aRunning

\* C26: a sample accepted while paused enters the output block as silence,
\* and it advances the block cursor like any other sample; the bin counter
\* and index, the peak counter and the waveform decimation counter and
\* cursor depend only on the number of accepted samples, whatever the
\* pattern of pause toggles.
C26_PauseKeepsAccounting ==
    /\ [](/\ _binCnt = hN % BIN_WINDOW
          /\ _binIdx = (hN \div BIN_WINDOW) % VIS_BINS
          /\ _peakCnt = hN % PEAK_WINDOW
          /\ _waveSub = hN % WAVE_DECIM
          /\ visWaveW = (hN \div WAVE_DECIM) % VIS_WAVE_N)
    /\ [][hN' # hN =>
            /\ _bp' = IF _bp + 2 = BUF_SZ THEN 0 ELSE _bp + 2
            /\ aPaused =>
                  /\ hWin'[Len(hWin')] = 0
                  /\ _bp' # 0 => _buf' = _buf \o <<0, 0>>
                  /\ hPeak' \in {0, hPeak}]_vars

\* C26 witness: a peak window that began with sound completes on a sample
\* accepted while paused, with silence at the end of the block in progress.
C26_Witness ==
    /\ aPaused /\ ret = "true" /\ hN = PEAK_WINDOW /\ _peakCnt = 0
    /\ Len(_buf) > 0 /\ _buf[Len(_buf)] = 0 /\ hPeak > 0


\* C27: the block cursor is even and within 0 .. BUF_SZ - 1 whenever
\* ConsumeSample is entered; an accepted sample advances it by 2, and the
\* 256th sample since the last flush or stop() flushes the block and leaves
\* the cursor at 0.
C27_BlockCursorInBounds ==
    /\ [](_bp % 2 = 0 /\ _bp >= 0 /\ _bp < BUF_SZ /\ Len(_buf) = _bp)
    /\ [][hN' # hN =>
            IF Len(_buf) = BUF_SZ - 2
              THEN _bp' = 0 /\ _buf' = <<>>
              ELSE _bp' = _bp + 2 /\ Len(_buf') = Len(_buf) + 2]_vars

\* C27 witness: the block is flushed by the 256th sample after a stop() that
\* came 100 samples into the run.
C27_Witness == hN = 356 /\ _bp = 0 /\ _buf = <<>> /\ ret = "true" /\ mp3 = "running"


\* C28: the peak envelope is written once per 735 accepted samples, with
\* clamp(mean magnitude of the window, 0, 32767); visPeak stays in
\* 0 .. 32767 and every bin in 0 .. 255; the accumulators hold at most a
\* window of magnitudes of at most 32768 each, far below 2^32.
C28_PeakIsClampedMean ==
    /\ [](/\ visPeak \in 0 .. 32767
          /\ \A k \in 0 .. (VIS_BINS - 1) : visBins[k] \in 0 .. 255
          /\ _peakAcc \in 0 .. (PEAK_WINDOW * 32768)
          /\ \A k \in 0 .. (VIS_BINS - 1) : _binAcc[k] \in 0 .. (BIN_WINDOW * 32768)
          /\ (hN > 0 /\ hN % PEAK_WINDOW = 0) =>
                (visPeak = Clamp(hPeak \div PEAK_WINDOW, 0, 32767) /\ _peakAcc = 0)
          /\ hN % PEAK_WINDOW # 0 => _peakAcc = hPeak)
    /\ [][visPeak' # visPeak => (hN' = hN + 1 /\ hN' % PEAK_WINDOW = 0)]_vars

\* C28 witness: a window in which every output sample is -32768; its mean
\* magnitude 32768 is clamped to 32767.
C28_Witness == hN = PEAK_WINDOW /\ hPeak = PEAK_WINDOW * 32768 /\ visPeak = 32767

\* C30: the volume stays in 0 .. 255 under the volume keys and saturates:
\* the down key gives max(volume - 15, 0) and the up key min(volume + 15,
\* 255), from every value of the 8-bit volume; the gain and the saved
\* setting follow the volume.
C30_VolumeSaturates ==
    /\ [](volume \in 0 .. 255 /\ prefsVol = volume /\ gainF2P6 = GainOf(volume))
    /\ [][C_VolDown => volume' = Max(volume - 15, 0)]_vars
    /\ [][C_VolUp => volume' = Min(volume + 15, 255)]_vars

\* C30 witness: the up key in the Player has left the volume at its highest
\* value, with the gain 255/200 in 2.6 fixed point.
C30_Witness == c_blk = "P_volup" /\ volume = 255 /\ gainF2P6 = 81 /\ prefsVol = 255

\* an input is acted on: a keyboard event is let through to the key blocks,
\* the G0 button leaves the Player, or Enter leaves the error screen
InputAccepted ==
    \/ c_pc = "idle" /\ c_pc' = "keys"
    \/ c_pc = "idle" /\ appState = "PLAYING" /\ appState' = "BROWSER"
    \/ appState = "ERROR" /\ appState' = "BOOT"

\* C24: in every application state two inputs that are acted on are at
\* least DEBOUNCE_MS apart, and a keyboard input is acted on only when the
\* held keys changed and a key is down.
C24_InputsDebouncedEverywhere ==
    [][InputAccepted =>
          /\ hAccAt = -1 \/ now - hAccAt >= DEBOUNCE_MS
          /\ (c_pc' = "keys" \/ appState = "ERROR") => KeyEdge]_vars


\* C29: in the Error state a step changes nothing but the keyboard state
\* and the clock, except that Enter, newly pressed, leads to Boot; in the
\* Boot state no step publishes a command, toggles the pause or changes the
\* volume, and the selection changes only as the boot completes.
C29_ErrorAndBootIgnoreInput ==
    /\ [][appState = "ERROR" =>
            /\ appState' \in {"ERROR", "BOOT"}
            /\ appState' = "BOOT" => (kbChange /\ kbEnter)
            /\ UNCHANGED <<sharedVars, selectedIdx, c_pc, c_blk, c_arg>>
            /\ UNCHANGED <<volume, prefsVol, gainF2P6, tLastKey, stations>>]_vars
    /\ [][appState = "BOOT" =>
            /\ UNCHANGED <<aCmd, aTarget, aRunning, aPaused, playingIdx>>
            /\ UNCHANGED <<volume, prefsVol, gainF2P6, tLastKey>>
            /\ selectedIdx' # selectedIdx => appState' = "BROWSER"]_vars

\* C29 witness: Enter on the error screen has led back to Boot, after
\* another key was pressed there without effect.
C29_Witness ==
    /\ appState = "BOOT" /\ hAccAt >= 0 /\ kbEnter /\ kbOther /\ ~kbChange
    /\ aCmd = ACMD_NONE /\ playingIdx = NoStation /\ volume = DEFAULT_VOLUME


\* C31: the deferred refresh starts at most once after the device is switched
\* on, only in a pass that finds the flag set and the WiFi connected; the flag
\* is clear while the fetch is under way; the application state does not
\* change during the fetch, and after a refresh it is never Error or Boot.
C31_RefreshOnceWhenWifiUp ==
    /\ [](hRefreshes <= 1)
    /\ [](c_pc = "fetch" => ~needsRefresh /\ appState \in {"BROWSER", "PLAYING"})
    /\ [][hRefreshes' # hRefreshes => needsRefresh /\ wifiUp /\ c_pc' = "fetch"]_vars
    /\ [][c_pc = "fetch" => appState' = appState]_vars
    /\ [](hRefreshes > 0 => appState \in {"BROWSER", "PLAYING"})

\* The refresh ran while a station was playing and its fetch failed on a body
\* that is no JSON: the application is still in the Player.
C31_Witness ==
    /\ hRefreshes = 1 /\ c_pc = "idle" /\ ~needsRefresh
    /\ hBoot = "cache" /\ ~cache.valid
    /\ appState = "PLAYING" /\ aRunning


\* C32: once the control context has issued Stop from the Player (key 'x':
\* Stop published, playingIdx = -1) and everything has settled with no later
\* command, playingIdx = -1.
C32_StopLeavesNoPlayingIdx ==
    (Settled /\ hLastKind = "stop") => playingIdx = NoStation


\* C33: while a Play is in the slot, the index in aTarget denotes the same
\* station after every step (in particular after a re-sort or a refresh of
\* the directory) as before it, so the audio task connects to the station
\* that was selected when the command was issued; the audio task stores the
\* index it connected to into playingIdx, and while a session is running a
\* change of the directory leaves playingIdx on the same station.
C33_TargetDenotesSelectedStation ==
    [][/\ (aCmd = ACMD_PLAY /\ aCmd' = ACMD_PLAY /\ InRange(aTarget) /\ aTarget' = aTarget)
            => (aTarget < stationCount' /\ stations'[aTarget].id = stations[aTarget].id)
       /\ (mp3 # "running" /\ mp3' = "running") => playingIdx' = audioSrc'
       /\ (mp3 = "running" /\ mp3' = "running" /\ InRange(playingIdx) /\ stations' # stations)
            => (playingIdx' >= 0 /\ playingIdx' < stationCount'
                /\ stations'[playingIdx'].id = stations[playingIdx].id)]_vars


\* C34: whenever the application is in the Browser or the Player, the
\* directory is not empty and the selection is an index of it.
C34_SelectionInDirectory ==
    appState \in {"BROWSER", "PLAYING"}
        => (stationCount > 0 /\ 0 <= selectedIdx /\ selectedIdx < stationCount)


C36_RunningImpliesSession ==
    /\ [](aRunning => (mp3 # "null" /\ audioSrc # NoStation /\ nLive = 1))
    /\ []((mp3 = "null" \/ audioSrc = NoStation \/ nLive = 0) => ~aRunning)
    /\ [][(A_Cleanup \/ A_BeginFailed \/ A_RetryCleanup) =>
            (mp3' = "null" /\ audioSrc' = NoStation /\ nLive' = 0 /\ ~aRunning')]_vars

\* C36 witness: the stream of a running session has failed and cleanupAudio
\* has torn the session down at the start of the retry wait.
C36_Witness ==
    /\ a_pc = "poll" /\ i = 0 /\ hFailIdx # NoStation /\ playingIdx = hFailIdx
    /\ mp3 = "null" /\ audioSrc = NoStation /\ nLive = 0 /\ ~aRunning


\* C37: every startPlaying and stopPlaying of the control context clears
\* aPaused before it publishes its command, and aPaused becomes true only by
\* a pause toggle, which never runs inside a request: aPaused is false while
\* the request is under way and when its command is stored, and it is true
\* only after a toggle made since.
C37_RequestsClearPause ==
    /\ [](c_pc \in {"sp2", "sp3", "sp4", "st2"} => ~aPaused)
    /\ [][(C_PlayCmd \/ C_StopCmd) => (~aPaused /\ ~aPaused')]_vars
    /\ [][(~aPaused /\ aPaused') =>
            ((C_BrowserToggle \/ C_PlayerToggle) /\ c_pc' = "keys")]_vars
    /\ [][(aPaused /\ ~aPaused') =>
            (C_BrowserToggle \/ C_PlayerToggle \/ c_pc' \in {"sp2", "st2"})]_vars

\* C37 witness: a skip in the Player while a session runs (paused or not):
\* startPlaying for the next station is about to publish its command, the
\* old session is still running and aPaused is false.
C37_Witness ==
    /\ c_pc = "sp4" /\ c_blk = "P_next" /\ ~aPaused
    /\ mp3 = "running" /\ aRunning /\ audioSrc # c_arg /\ aCmd = ACMD_NONE

=============================================================================
